---- MODULE Spec2Model ----
(***************************************************************************)
(* State-machine model of the GBA emulator core: the ARM7TDMI interpreter  *)
(* (cpu.c, armProc.c, thumbProc.c), the interrupt, timer and DMA registers *)
(* of the bus and the Flash backup (memory.c), the DMA channels (dma.c)    *)
(* and the scanline scheduler (ppu.c).                                     *)
(*                                                                         *)
(* A Word (uint32_t) is the pair <<hi, lo>> of its two 16-bit halves, so   *)
(* that every value stays inside the range of the model checker's          *)
(* integers while keeping the full 32-bit width of the source.             *)
(***************************************************************************)
EXTENDS Integers, Sequences, FiniteSets, TLC

(* ---------------------------------------------------------------------- *)
(* 16-bit and 32-bit arithmetic                                            *)
(* ---------------------------------------------------------------------- *)
RECURSIVE And16(_, _)
And16(a, b) ==
    IF a = 0 \/ b = 0 THEN 0
    ELSE (a % 2) * (b % 2) + 2 * And16(a \div 2, b \div 2)

Or16(a, b) == a + b - And16(a, b)

Xor16(a, b) == a + b - 2 * And16(a, b)

Not16(a) == 65535 - a

W(hi, lo) == <<hi, lo>>

WZero == <<0, 0>>

WNat(n) == <<n \div 65536, n % 65536>>

WAnd(a, b) == <<And16(a[1], b[1]), And16(a[2], b[2])>>

WOr(a, b) == <<Or16(a[1], b[1]), Or16(a[2], b[2])>>

WXor(a, b) == <<Xor16(a[1], b[1]), Xor16(a[2], b[2])>>

WNot(a) == <<Not16(a[1]), Not16(a[2])>>

WAdd(a, b) ==
    LET lo == a[2] + b[2]
        hi == a[1] + b[1] + (lo \div 65536)
    IN  <<hi % 65536, lo % 65536>>

WSub(a, b) ==
    LET lo == a[2] - b[2]
        br == IF lo < 0 THEN 1 ELSE 0
        hi == a[1] - b[1] - br
    IN  <<(hi + 131072) % 65536, (lo + 65536) % 65536>>

WNeg(a) == WSub(WZero, a)

WGe(a, b) == a[1] > b[1] \/ (a[1] = b[1] /\ a[2] >= b[2])

WLt(a, b) == ~WGe(a, b)

WBit(w, n) ==
    IF n < 16 THEN (w[2] \div (2 ^ n)) % 2 ELSE (w[1] \div (2 ^ (n - 16))) % 2

(* logical shifts by 0..31 *)
WShr(w, n) ==
    IF n = 0 THEN w
    ELSE IF n < 16
         THEN <<w[1] \div (2 ^ n),
                (w[2] \div (2 ^ n)) + (w[1] % (2 ^ n)) * (2 ^ (16 - n))>>
         ELSE <<0, w[1] \div (2 ^ (n - 16))>>

WShl(w, n) ==
    IF n = 0 THEN w
    ELSE IF n < 16
         THEN <<(w[1] * (2 ^ n) + (w[2] \div (2 ^ (16 - n)))) % 65536,
                (w[2] * (2 ^ n)) % 65536>>
         ELSE <<(w[2] * (2 ^ (n - 16))) % 65536, 0>>

(* arithmetic shift right by 0..31: (int32_t)w >> n *)
WAsr(w, n) ==
    IF WBit(w, 31) = 0 THEN WShr(w, n)
    ELSE WNot(WShr(WNot(w), n))

(* ROR(operand, shiftAmount), cpu.c:1231 *)
WRor(w, n) ==
    LET k == n % 32
    IN  IF k = 0 THEN w ELSE WOr(WShr(w, k), WShl(w, 32 - k))

(* set or clear bit n of w *)
WSetBit(w, n, on) ==
    LET m == WShl(<<0, 1>>, n)
    IN  IF on THEN WOr(w, m) ELSE WAnd(w, WNot(m))

(* ---------------------------------------------------------------------- *)
(* Program constants                                                       *)
(* ---------------------------------------------------------------------- *)
USER == 16
FIQ == 17
IRQ == 18
SVC == 19
ABT == 23
UNDEF == 27
SYSTEM == 31

ARM_VEC_RESET == 0
ARM_VEC_UND == 4
ARM_VEC_SVC == 8
ARM_VEC_IRQ == 24
ARM_VEC_FIQ == 28

CC_UNMOD == 2

(* ---------------------------------------------------------------------- *)
(* State.  cpu mirrors cpuCore, mem mirrors the parts of memoryCore the    *)
(* interpreter, the interrupt controller and the timers use.               *)
(* ---------------------------------------------------------------------- *)
VARIABLES
    cpu,        \* cpuCore: regs, banks, cpsr, spsr_*, carry, pipeline, cycle
    mem,        \* memoryCore: bios, rom, iWRAM, biosBus, iwpdc, lcd, timers
    timerTemps, \* Word timerTemps[4]
    timerENB,   \* Byte timerENB
    exited,     \* 0 while the process runs, else the code passed to exit()
    sched,      \* position inside tickPPU / executeInput, frame texture locked
    last,       \* what the last step did (observation only)
    prog,       \* which input image was loaded (observation only)
    timerObs,   \* observation of the last updateTimer call
    dmaObs,     \* observation of the DMA transfers and the rendering of the last step
    hist        \* open exception frames, halt request, pending r15 write
                \* (observation only)

vars == <<cpu, mem, timerTemps, timerENB, exited, sched, last, prog, timerObs, dmaObs,
          hist>>

(* the machine state the C functions read and write *)
(* ev, chk, pcw, trace, runs and bg are logs of one step, for observation  *)
(* only: exception entries, calls of cpuCheckIRQ, the values written to    *)
(* r15, the DMA units moved and scanlines rendered, the DMA channels run,  *)
(* the reference point each affine background was drawn from               *)
Machine == [cpu |-> cpu, mem |-> mem, tt |-> timerTemps, enb |-> timerENB,
            exit |-> exited, ev |-> <<>>, chk |-> <<>>, pcw |-> <<>>,
            trace |-> <<>>, runs |-> <<>>, bg |-> <<>>]

(* ---------------------------------------------------------------------- *)
(* cpu.c: status registers, register file                                  *)
(* ---------------------------------------------------------------------- *)
PROCESSOR_MODE(s) == s.cpu.cpsr[2] % 32

THUMB_ACTIVATED(s) == (s.cpu.cpsr[2] \div 32) % 2

getPSR(s) ==
    LET m == PROCESSOR_MODE(s)
    IN  CASE m \in {USER, SYSTEM} -> s.cpu.cpsr
          [] m = FIQ -> s.cpu.spsr_fiq
          [] m = IRQ -> s.cpu.spsr_irq
          [] m = SVC -> s.cpu.spsr_svc
          [] m = ABT -> s.cpu.spsr_abt
          [] m = UNDEF -> s.cpu.spsr_und
          [] OTHER -> WZero

setPSR(s, val) ==
    LET m == PROCESSOR_MODE(s)
    IN  CASE m \in {USER, SYSTEM} -> [s EXCEPT !.cpu.cpsr = val]
          [] m = FIQ -> [s EXCEPT !.cpu.spsr_fiq = val]
          [] m = IRQ -> [s EXCEPT !.cpu.spsr_irq = val]
          [] m = SVC -> [s EXCEPT !.cpu.spsr_svc = val]
          [] m = ABT -> [s EXCEPT !.cpu.spsr_abt = val]
          [] m = UNDEF -> [s EXCEPT !.cpu.spsr_und = val]
          [] OTHER -> s

updatePC(s, newPC) ==
    [s EXCEPT !.cpu.regs[15] = newPC, !.cpu.pipeline = WZero, !.pcw = Append(@, newPC)]

updateCPUMode(s, mode) ==
    [s EXCEPT !.cpu.cpsr = <<@[1], (@[2] - (@[2] % 32)) + mode>>]

(* modes for which getReg / setReg have a case for r13 and r14; any other  *)
(* mode value makes them exit(1)                                           *)
BankedModes == {USER, SYSTEM, FIQ, IRQ, SVC, ABT, UNDEF}

getReg(s, regId) ==
    LET m == PROCESSOR_MODE(s)
    IN  CASE regId \in 0..7 -> s.cpu.regs[regId]
          [] regId \in 8..12 ->
                IF m = FIQ THEN s.cpu.regsFIQ[regId - 8] ELSE s.cpu.regs[regId]
          [] regId \in {13, 14} ->
                (CASE m \in {USER, SYSTEM} -> s.cpu.regs[regId]
                   [] m = FIQ -> s.cpu.regsFIQ[regId - 8]
                   [] m = IRQ -> s.cpu.regsIRQ[regId - 13]
                   [] m = SVC -> s.cpu.regsSVC[regId - 13]
                   [] m = ABT -> s.cpu.regsABT[regId - 13]
                   [] m = UNDEF -> s.cpu.regsUND[regId - 13])
          [] regId = 15 -> s.cpu.regs[15]

setReg(s, regId, val) ==
    LET m == PROCESSOR_MODE(s)
    IN  CASE regId \in 0..7 -> [s EXCEPT !.cpu.regs[regId] = val]
          [] regId \in 8..12 ->
                IF m = FIQ THEN [s EXCEPT !.cpu.regsFIQ[regId - 8] = val]
                ELSE [s EXCEPT !.cpu.regs[regId] = val]
          [] regId \in {13, 14} ->
                (CASE m \in {USER, SYSTEM} -> [s EXCEPT !.cpu.regs[regId] = val]
                   [] m = FIQ -> [s EXCEPT !.cpu.regsFIQ[regId - 8] = val]
                   [] m = IRQ -> [s EXCEPT !.cpu.regsIRQ[regId - 13] = val]
                   [] m = SVC -> [s EXCEPT !.cpu.regsSVC[regId - 13] = val]
                   [] m = ABT -> [s EXCEPT !.cpu.regsABT[regId - 13] = val]
                   [] m = UNDEF -> [s EXCEPT !.cpu.regsUND[regId - 13] = val])
          [] regId = 15 ->
                updatePC(s, IF THUMB_ACTIVATED(s) = 1
                            THEN <<val[1], val[2] - (val[2] % 2)>>
                            ELSE <<val[1], val[2] - (val[2] % 4)>>)

(* cc is the bit position of the flag: N = 31, Z = 30, C = 29, V = 28 *)
getCC(s, cc) == WBit(getPSR(s), cc)

setCC(s, n, z, c, v) ==
    LET flag(p, bit, x) == IF x # CC_UNMOD THEN WSetBit(p, bit, x # 0) ELSE p
    IN  setPSR(s, flag(flag(flag(flag(getPSR(s), 31, n), 30, z), 29, c), 28, v))

evalCond(s, opcode) ==
    LET test(n, z, c, v) ==
            CASE opcode = 0 -> z = 1
              [] opcode = 1 -> z = 0
              [] opcode = 2 -> c = 1
              [] opcode = 3 -> c = 0
              [] opcode = 4 -> n = 1
              [] opcode = 5 -> n = 0
              [] opcode = 6 -> v = 1
              [] opcode = 7 -> v = 0
              [] opcode = 8 -> c = 1 /\ z = 0
              [] opcode = 9 -> c = 0 \/ z = 1
              [] opcode = 10 -> n = v
              [] opcode = 11 -> n # v
              [] opcode = 12 -> z = 0 /\ n = v
              [] opcode = 13 -> z = 1 \/ n # v
              [] opcode = 14 -> TRUE
              [] OTHER -> FALSE
    IN  test(getCC(s, 31), getCC(s, 30), getCC(s, 29), getCC(s, 28))

cpuFlagSet(s, bit, cond) == [s EXCEPT !.cpu.cpsr = WSetBit(@, bit, cond)]

flagTST(s, bit) == WBit(s.cpu.cpsr, bit) = 1

cpuInThumb(s) == WBit(s.cpu.cpsr, 5) = 1

(* bankToReg(mode): load the bank of `mode` into the live registers *)
bankToReg(s, mode) ==
    CASE mode = FIQ ->
            [s EXCEPT !.cpu.regs =
                [r \in 0..15 |-> IF r \in 8..14 THEN s.cpu.regsFIQ[r - 8] ELSE @[r]]]
      [] mode = IRQ ->
            [s EXCEPT !.cpu.regs[13] = s.cpu.regsIRQ[0], !.cpu.regs[14] = s.cpu.regsIRQ[1]]
      [] mode = SVC ->
            [s EXCEPT !.cpu.regs[13] = s.cpu.regsSVC[0], !.cpu.regs[14] = s.cpu.regsSVC[1]]
      [] mode = ABT ->
            [s EXCEPT !.cpu.regs[13] = s.cpu.regsABT[0], !.cpu.regs[14] = s.cpu.regsABT[1]]
      [] mode = UNDEF ->
            [s EXCEPT !.cpu.regs[13] = s.cpu.regsUND[0], !.cpu.regs[14] = s.cpu.regsUND[1]]
      [] OTHER -> s

(* regToBank(mode): save the live registers into the bank of `mode`.      *)
(* The UNDEF case stores to regsUND[1] and regsUND[2]; regsUND has two     *)
(* elements and the next member of cpuCore is cpsr, so the second store    *)
(* lands on cpsr.                                                          *)
regToBank(s, mode) ==
    CASE mode = FIQ ->
            [s EXCEPT !.cpu.regsFIQ = [i \in 0..6 |-> s.cpu.regs[i + 8]]]
      [] mode = IRQ ->
            [s EXCEPT !.cpu.regsIRQ = [i \in 0..1 |-> s.cpu.regs[i + 13]]]
      [] mode = SVC ->
            [s EXCEPT !.cpu.regsSVC = [i \in 0..1 |-> s.cpu.regs[i + 13]]]
      [] mode = ABT ->
            [s EXCEPT !.cpu.regsABT = [i \in 0..1 |-> s.cpu.regs[i + 13]]]
      [] mode = UNDEF ->
            [s EXCEPT !.cpu.regsUND[1] = s.cpu.regs[13], !.cpu.cpsr = s.cpu.regs[14]]
      [] OTHER -> s

cpuModeSet(s, mode) ==
    LET curr == s.cpu.cpsr[2] % 32
        s1 == [s EXCEPT !.cpu.cpsr = <<0, mode>>]
    IN  bankToReg(regToBank(s1, curr), mode)

setSPSR(s, spsr) ==
    LET m == s.cpu.cpsr[2] % 32
    IN  CASE m = FIQ -> [s EXCEPT !.cpu.spsr_fiq = spsr]
          [] m = IRQ -> [s EXCEPT !.cpu.spsr_irq = spsr]
          [] m = SVC -> [s EXCEPT !.cpu.spsr_svc = spsr]
          [] m = ABT -> [s EXCEPT !.cpu.spsr_abt = spsr]
          [] m = UNDEF -> [s EXCEPT !.cpu.spsr_und = spsr]
          [] OTHER -> s

(* ---------------------------------------------------------------------- *)
(* memory.c: reads                                                         *)
(* ---------------------------------------------------------------------- *)
Region(addr) == addr[1] \div 256

(* word stored at byte offset off (a multiple of 4) of a loaded image or RAM *)
WordAt(img, off) == IF off \in DOMAIN img THEN img[off] ELSE WZero

(* byte lane n (0..3) of a word *)
ByteOf(w, n) ==
    IF n < 2 THEN (w[2] \div (256 ^ n)) % 256 ELSE (w[1] \div (256 ^ (n - 2))) % 256

(* offset into vram[] of a VRAM address:                                   *)
(* addr & (addr & 0x10000 ? 0x17fff : 0x1ffff)                             *)
vramOffset(addr) ==
    IF addr[1] % 2 = 1 THEN 65536 + (addr[2] % 32768) ELSE addr[2]

(* flashRead that always reads bank 0 *)
flashReadBankZero(s, address) ==
    LET cell(img, o) == IF o \in DOMAIN img THEN img[o] ELSE 0
    IN  IF s.mem.modeIdFlash
        THEN (IF address = <<3584, 0>> THEN 98
              ELSE IF address = <<3584, 1>> THEN 19 ELSE 0)
        ELSE IF s.mem.usedFlash
             THEN cell(s.mem.flash, address[2])
             ELSE cell(s.mem.sram, address[2])

(* flashRead(address); flash and sram hold the cells the model keeps of    *)
(* the two arrays, a cell outside them reads as the 0 of memset            *)
flashRead(s, address) ==
    LET cell(img, o) == IF o \in DOMAIN img THEN img[o] ELSE 0
    IN  IF s.mem.modeIdFlash
        THEN (IF address = <<3584, 0>> THEN 98
              ELSE IF address = <<3584, 1>> THEN 19 ELSE 0)
        ELSE IF s.mem.usedFlash
             THEN cell(s.mem.flash, s.mem.flashBank + address[2])
             ELSE cell(s.mem.sram, address[2])

memReadIO(s, addr) ==
    LET a == addr[2]
        t == (a - 256) \div 4
    IN  IF addr[1] # 1024 THEN 0
        ELSE CASE a = 4 -> s.mem.dispstat % 256
               [] a = 5 -> s.mem.dispstat \div 256
               [] a = 6 -> s.mem.vcount % 256
               [] a = 7 -> s.mem.vcount \div 256
               [] a \in 176..223 /\ (a - 176) % 12 = 10 ->
                    s.mem.dma[(a - 176) \div 12].control % 256
               [] a \in 176..223 /\ (a - 176) % 12 = 11 ->
                    s.mem.dma[(a - 176) \div 12].control \div 256
               [] a \in 256..271 /\ a % 4 = 0 -> s.mem.timers[t].counter % 256
               [] a \in 256..271 /\ a % 4 = 1 -> s.mem.timers[t].counter \div 256
               [] a \in 256..271 /\ a % 4 = 2 -> s.mem.timers[t].control % 256
               [] a \in 256..271 /\ a % 4 = 3 -> s.mem.timers[t].control \div 256
               [] a = 512 -> s.mem.ie % 256
               [] a = 513 -> s.mem.ie \div 256
               [] a = 514 -> s.mem.i_f % 256
               [] a = 515 -> s.mem.i_f \div 256
               [] a = 520 -> s.mem.ime % 256
               [] a = 768 -> s.mem.postflag
               [] OTHER -> 0

memReadWord(s, addr0) ==
    LET addr == <<addr0[1], addr0[2] - (addr0[2] % 4)>>
        r == Region(addr)
        (* memReadIO(addr + 0) | ... | (memReadIO(addr + 3) << 24) *)
        io(b) == <<b[2] + 256 * b[3], b[0] + 256 * b[1]>>
    IN  CASE r = 0 ->
                IF addr[1] = 0 /\ s.cpu.regs[15][1] = 0
                   /\ Or16(addr[2], s.cpu.regs[15][2]) < 16384
                THEN WordAt(s.mem.bios, addr[2] % 16384)
                ELSE s.mem.biosBus
          [] r = 2 -> WordAt(s.mem.eWRAM, (addr[1] % 4) * 65536 + addr[2])
          [] r = 3 -> WordAt(s.mem.iWRAM, addr[2] % 32768)
          [] r = 4 -> io([n \in 0..3 |-> memReadIO(s, <<addr[1], addr[2] + n>>)])
          [] r = 5 -> WordAt(s.mem.palRAM, addr[2] % 1024)
          [] r = 6 -> WordAt(s.mem.vram, vramOffset(addr))
          [] r = 7 -> WordAt(s.mem.oam, addr[2] % 1024)
          [] r \in 8..11 -> WordAt(s.mem.rom, (addr[1] % 512) * 65536 + addr[2])
          [] OTHER -> WZero

memReadHalfWord(s, addr0) ==
    LET addr == <<addr0[1], addr0[2] - (addr0[2] % 2)>>
        r == Region(addr)
        al == addr[2] - (addr[2] % 4)
        half(w) == IF addr[2] % 4 = 0 THEN w[2] ELSE w[1]
        io(b) == b[0] + 256 * b[1]
    IN  CASE r = 0 ->
                IF addr[1] = 0 /\ s.cpu.regs[15][1] = 0
                   /\ Or16(addr[2], s.cpu.regs[15][2]) < 16384
                THEN half(WordAt(s.mem.bios, al % 16384))
                ELSE s.mem.biosBus[2]
          [] r = 2 -> half(WordAt(s.mem.eWRAM, (addr[1] % 4) * 65536 + al))
          [] r = 3 -> half(WordAt(s.mem.iWRAM, al % 32768))
          [] r = 4 -> io([n \in 0..1 |-> memReadIO(s, <<addr[1], addr[2] + n>>)])
          [] r = 5 -> half(WordAt(s.mem.palRAM, al % 1024))
          [] r = 6 -> half(WordAt(s.mem.vram, vramOffset(<<addr[1], al>>)))
          [] r = 7 -> half(WordAt(s.mem.oam, al % 1024))
          [] r \in 8..11 -> half(WordAt(s.mem.rom, (addr[1] % 512) * 65536 + al))
          [] OTHER -> 0

memReadByte(s, addr) ==
    LET r == Region(addr)
        al == addr[2] - (addr[2] % 4)
        lane == addr[2] % 4
    IN  CASE r = 0 ->
                IF addr[1] = 0 /\ s.cpu.regs[15][1] = 0
                   /\ Or16(addr[2], s.cpu.regs[15][2]) < 16384
                THEN ByteOf(WordAt(s.mem.bios, al % 16384), lane)
                ELSE s.mem.biosBus[2] % 256
          [] r = 2 -> ByteOf(WordAt(s.mem.eWRAM, (addr[1] % 4) * 65536 + al), lane)
          [] r = 3 -> ByteOf(WordAt(s.mem.iWRAM, al % 32768), lane)
          [] r = 4 -> memReadIO(s, addr)
          [] r = 5 -> ByteOf(WordAt(s.mem.palRAM, al % 1024), lane)
          [] r = 6 -> ByteOf(WordAt(s.mem.vram, vramOffset(<<addr[1], al>>)), lane)
          [] r = 7 -> ByteOf(WordAt(s.mem.oam, al % 1024), lane)
          [] r \in 8..11 -> ByteOf(WordAt(s.mem.rom, (addr[1] % 512) * 65536 + al), lane)
          [] r \in 14..15 -> flashRead(s, addr)
          [] OTHER -> 0

(* ---------------------------------------------------------------------- *)
(* cpu.c: fetch, exception entry, IRQ check                                *)
(* ---------------------------------------------------------------------- *)
(* returns the fetched opcode v and the state s with r15 advanced *)
fetchInstruction(s) ==
    IF cpuInThumb(s)
    THEN [v |-> <<0, memReadHalfWord(s, s.cpu.regs[15])>>,
          s |-> [s EXCEPT !.cpu.regs[15] = WAdd(@, <<0, 2>>)]]
    ELSE [v |-> memReadWord(s, s.cpu.regs[15]),
          s |-> [s EXCEPT !.cpu.regs[15] = WAdd(@, <<0, 4>>)]]

(* an exception entry is logged in s.ev (observation only) *)
LogEntry(s, kind, mode, old) ==
    [s EXCEPT !.ev = Append(@, [kind |-> kind, mode |-> mode, before |-> old.cpu,
                                after |-> s.cpu])]

cpuInterrupt(s, address, mode) ==
    LET fiqDisable(s2) ==
            IF address = ARM_VEC_FIQ \/ address = ARM_VEC_RESET
            THEN cpuFlagSet(s2, 6, TRUE) ELSE s2
        link(s3) ==
            IF address = ARM_VEC_UND \/ address = ARM_VEC_SVC
            THEN (IF cpuInThumb(s3)
                  THEN [s3 EXCEPT !.cpu.regs[14] = WSub(s3.cpu.regs[15], <<0, 2>>)]
                  ELSE [s3 EXCEPT !.cpu.regs[14] = WSub(s3.cpu.regs[15], <<0, 4>>)])
            ELSE IF address # ARM_VEC_RESET
                 THEN [s3 EXCEPT !.cpu.regs[14] = WSub(s3.cpu.regs[15], <<0, 4>>)]
                 ELSE s3
        vector(s5) ==
            [s5 EXCEPT !.cpu.regs[15] = <<0, address>>, !.pcw = Append(@, <<0, address>>)]
        refill(f) == [f.s EXCEPT !.cpu.pipeline = f.v]
    IN  LogEntry(
            refill(fetchInstruction(vector(
                cpuFlagSet(cpuFlagSet(
                    link(fiqDisable(setSPSR(cpuModeSet(s, mode), s.cpu.cpsr))),
                    5, FALSE), 7, TRUE)))),
            "irq", mode, s)

cpuCheckIRQ(s) ==
    LET raise == ~flagTST(s, 7) /\ s.mem.ie % 2 = 1 /\ And16(s.mem.ie, s.mem.i_f) # 0
        s1 == [s EXCEPT !.chk = Append(@, [ime |-> s.mem.ime, ie |-> s.mem.ie,
                                           i_f |-> s.mem.i_f, cpsr |-> s.cpu.cpsr,
                                           raised |-> raise])]
    IN  IF raise THEN cpuInterrupt(s1, ARM_VEC_IRQ, IRQ) ELSE s1

(* ---------------------------------------------------------------------- *)
(* memory.c: interrupt request, timers                                     *)
(* ---------------------------------------------------------------------- *)
triggerIRQ(s, flag) ==
    [s EXCEPT !.mem.i_f = Or16(@, flag), !.mem.powerDown = FALSE]

pscaleShift(n) == CASE n = 0 -> 0 [] n = 1 -> 6 [] n = 2 -> 8 [] n = 3 -> 10

(* value a uint16_t holds after v is stored into it *)
U16(v) == v % 65536

(* observation of updateTimer when no timer has run *)
NoObs ==
    [t \in 0..3 |-> [enabled |-> FALSE, irqEnable |-> FALSE, counter |-> 0, reload |-> 0,
                     inc |-> 0, overflow |-> FALSE, ifBefore |-> 0, ifAfter |-> 0,
                     after |-> 0]]

(* One iteration of the loop of updateTimer for timerId, given the state  *)
(* and the overflow flag left by the previous iteration.  counter.full is  *)
(* a HalfWord: the sum is stored back truncated to 16 bits before the      *)
(* comparison with 0xffff reads it.                                        *)
(* Returns the state, the overflow flag and inc, the ticks applied.        *)
updateTimerOne(s, timerId, overflowIn, cycles) ==
    LET tm == s.mem.timers[timerId]
        enabled == (tm.control \div 128) % 2 = 1
        cascade == (tm.control \div 4) % 2 = 1
        shift == pscaleShift(tm.control % 4)
        temp == s.tt[timerId] + cycles
        inc == IF cascade THEN (IF overflowIn THEN 1 ELSE 0) ELSE temp \div (2 ^ shift)
        counted == U16(tm.counter + inc)
        tt1 == IF cascade THEN s.tt[timerId] ELSE temp - inc * (2 ^ shift)
        overflow == counted > 65535
        reloaded == IF overflow THEN U16(tm.reload + (counted - 65536)) ELSE counted
        s1 == [s EXCEPT !.mem.timers[timerId].counter = reloaded, !.tt[timerId] = tt1]
        fifoA == overflow /\ (s.mem.soundcnt_h \div 1024) % 2 = timerId
        fifoB == overflow /\ (s.mem.soundcnt_h \div 16384) % 2 = timerId
        s2 == [s1 EXCEPT !.mem.fifoClocks = @ + (IF fifoA THEN 1 ELSE 0) + (IF fifoB THEN 1 ELSE 0)]
        s3 == IF (tm.control \div 64) % 2 = 1 /\ overflow
              THEN triggerIRQ(s2, 8 * (2 ^ timerId)) ELSE s2
    IN  IF ~enabled
        THEN [s |-> s, overflow |-> FALSE, inc |-> 0]
        ELSE [s |-> s3, overflow |-> overflow, inc |-> inc]

(* the loop of updateTimer(cycles) from timerId on, overflowIn being the   *)
(* overflow flag left by the previous iteration; obs collects, per timer,  *)
(* the counter before, the ticks applied and the overflow flag             *)
(* (observation)                                                           *)
RECURSIVE updateTimerRun(_, _, _, _, _)
updateTimerRun(s, timerId, overflowIn, cycles, obs) ==
    IF timerId > 3 THEN [s |-> s, obs |-> obs]
    ELSE LET next(r) ==
                 updateTimerRun(r.s, timerId + 1, r.overflow, cycles,
                     [obs EXCEPT ![timerId] =
                         [enabled |-> (s.mem.timers[timerId].control \div 128) % 2 = 1,
                          irqEnable |-> (s.mem.timers[timerId].control \div 64) % 2 = 1,
                          counter |-> s.mem.timers[timerId].counter,
                          reload |-> s.mem.timers[timerId].reload,
                          inc |-> r.inc,
                          overflow |-> r.overflow,
                          ifBefore |-> s.mem.i_f,
                          ifAfter |-> r.s.mem.i_f,
                          after |-> r.s.mem.timers[timerId].counter]])
         IN  next(updateTimerOne(s, timerId, overflowIn, cycles))

updateTimer(s, cycles) == updateTimerRun(s, 0, FALSE, cycles, NoObs).s

memWriteTimer(s, timerId, byte) ==
    LET old == s.mem.timers[timerId].control % 256
        s1 == [s EXCEPT !.mem.timers[timerId].control = (@ - (@ % 256)) + byte]
        s2 == IF (byte \div 128) % 2 = 1
              THEN [s1 EXCEPT !.enb = Or16(@, 2 ^ timerId)]
              ELSE [s1 EXCEPT !.enb = And16(@, 255 - (2 ^ timerId))]
    IN  IF And16(And16(Xor16(old, byte), byte), 128) # 0
        THEN [s2 EXCEPT !.mem.timers[timerId].counter = s2.mem.timers[timerId].reload,
                        !.tt[timerId] = 0]
        ELSE s2

(* ---------------------------------------------------------------------- *)
(* memory.c: writes                                                        *)
(* ---------------------------------------------------------------------- *)
SetLo(v, byte) == (v - (v % 256)) + byte

SetHi(v, byte) == (v % 256) + 256 * byte

SetByte(w, lane, byte) ==
    CASE lane = 0 -> <<w[1], SetLo(w[2], byte)>>
      [] lane = 1 -> <<w[1], SetHi(w[2], byte)>>
      [] lane = 2 -> <<SetLo(w[1], byte), w[2]>>
      [] lane = 3 -> <<SetHi(w[1], byte), w[2]>>

(* store of a word into a RAM image at byte offset off (multiple of 4) *)
PutWord(img, off, w) == [o \in DOMAIN img \cup {off} |-> IF o = off THEN w ELSE img[o]]

(* the region a write is dispatched on: (addr >> 24) & 0xF *)
WriteRegion(addr) == (addr[1] \div 256) % 16

(* ---------------------------------------------------------------------- *)
(* dma.c: the four DMA channels                                            *)
(* ---------------------------------------------------------------------- *)
DMA_REP == 512

DMA_32 == 1024

DMA_IRQ == 16384

DMA_ENB == 32768

IMMEDIATELY == 0

VBLANK == 1

HBLANK == 2

SPECIAL == 3

(* the loop while (dmaCount[ch]--) of dmaTransfer: one unit per iteration; *)
(* the decrement that ends the loop leaves dmaCount at 0xFFFFFFFF.  Every  *)
(* unit moved is appended to the trace (observation).  The unit is stored  *)
(* as memWriteWord / memWriteHalfWord store it into eWRAM and iWRAM; a     *)
(* destination elsewhere (I/O registers, video memory) is left unwritten.  *)
RECURSIVE dmaUnits(_, _, _, _)
dmaUnits(s, ch, destIncrement, srcIncrement) ==
    LET advance(s1, src, dest) ==
            dmaUnits([s1 EXCEPT !.mem.dmaDest[ch] = WAdd(@, destIncrement),
                                !.mem.dmaSrc[ch] = WAdd(@, srcIncrement),
                                !.trace = Append(@, [kind |-> "unit", ch |-> ch,
                                                     src |-> src, dest |-> dest,
                                                     stat |-> s1.mem.dispstat,
                                                     irq |-> s1.mem.i_f])],
                     ch, destIncrement, srcIncrement)
        put(img, off, al, v, wide) ==
            PutWord(img, off, IF wide THEN v
                              ELSE IF al % 4 = 0 THEN <<WordAt(img, off)[1], v>>
                              ELSE <<v, WordAt(img, off)[2]>>)
        store(s1, addr, v, wide) ==
            CASE WriteRegion(addr) = 2 ->
                   [s1 EXCEPT !.mem.eWRAM =
                       put(@, (addr[1] % 4) * 65536 + addr[2] - (addr[2] % 4), addr[2], v, wide)]
              [] WriteRegion(addr) = 3 ->
                   [s1 EXCEPT !.mem.iWRAM =
                       put(@, (addr[2] - (addr[2] % 4)) % 32768, addr[2], v, wide)]
              [] OTHER -> s1
        move(s1, src, dest) ==
            advance(IF And16(s1.mem.dma[ch].control, DMA_32) # 0
                    THEN store(s1, <<dest[1], dest[2] - (dest[2] % 4)>>,
                               memReadWord(s1, src), TRUE)
                    ELSE store(s1, <<dest[1], dest[2] - (dest[2] % 2)>>,
                               memReadHalfWord(s1, src), FALSE),
                    src, dest)
    IN  IF s.mem.dmaCount[ch] = WZero
        THEN [s EXCEPT !.mem.dmaCount[ch] = <<65535, 65535>>]
        ELSE move([s EXCEPT !.mem.dmaCount[ch] = WSub(@, <<0, 1>>)],
                  s.mem.dmaSrc[ch], s.mem.dmaDest[ch])

(* dmaTransferFrom with the count left as the loop leaves it on Repeat *)
RECURSIVE dmaTransferFromNoReload(_, _, _)
dmaTransferFromNoReload(s, timing, ch) ==
    LET control == s.mem.dma[ch].control
        unitSize == IF And16(control, DMA_32) # 0 THEN 4 ELSE 2
        destMode == (control \div 32) % 4
        srcMode == (control \div 128) % 4
        destReload == destMode = 3
        destIncrement == CASE destMode \in {0, 3} -> <<0, unitSize>>
                           [] destMode = 1 -> WNeg(<<0, unitSize>>)
                           [] OTHER -> WZero
        srcIncrement == CASE srcMode = 0 -> <<0, unitSize>>
                          [] srcMode = 1 -> WNeg(<<0, unitSize>>)
                          [] OTHER -> WZero
        logged(moved, s3) ==
            dmaTransferFromNoReload(
                [s3 EXCEPT !.runs = Append(@,
                    [ch |-> ch, timing |-> timing, line |-> s.mem.vcount,
                     control |-> control,
                     src0 |-> s.mem.dmaSrc[ch], dest0 |-> s.mem.dmaDest[ch],
                     count0 |-> s.mem.dmaCount[ch],
                     units |-> Len(moved.trace) - Len(s.trace),
                     srcEnd |-> moved.mem.dmaSrc[ch], destEnd |-> moved.mem.dmaDest[ch],
                     srcAfter |-> s3.mem.dmaSrc[ch], destAfter |-> s3.mem.dmaDest[ch],
                     countAfter |-> s3.mem.dmaCount[ch],
                     controlAfter |-> s3.mem.dma[ch].control,
                     regCount |-> s3.mem.dma[ch].count,
                     regDest |-> s3.mem.dma[ch].destination,
                     ifBefore |-> s.mem.i_f, ifAfter |-> s3.mem.i_f])],
                timing, ch + 1)
        repeat(s2) ==
            IF And16(s2.mem.dma[ch].control, DMA_REP) # 0
            THEN [s2 EXCEPT !.mem.dmaDest[ch] = IF destReload THEN s2.mem.dma[ch].destination
                                                ELSE @]
            ELSE [s2 EXCEPT !.mem.dma[ch].control = And16(@, 65535 - DMA_ENB)]
        finish(moved) ==
            logged(moved,
                   repeat(IF And16(moved.mem.dma[ch].control, DMA_IRQ) # 0
                          THEN triggerIRQ(moved, 256 * (2 ^ ch)) ELSE moved))
    IN  IF ch > 3 THEN s
        ELSE IF And16(control, DMA_ENB) = 0 \/ (control \div 4096) % 4 # timing
             THEN dmaTransferFromNoReload(s, timing, ch + 1)
             ELSE finish(dmaUnits(IF ch = 3 THEN [s EXCEPT !.mem.eepromIdx = 0] ELSE s,
                                  ch, destIncrement, srcIncrement))

(* dmaTransferFrom with the negative step of the destination added as the  *)
(* unsigned byte it is stored in                                           *)
RECURSIVE dmaTransferFromUnsigned(_, _, _)
dmaTransferFromUnsigned(s, timing, ch) ==
    LET control == s.mem.dma[ch].control
        unitSize == IF And16(control, DMA_32) # 0 THEN 4 ELSE 2
        destMode == (control \div 32) % 4
        srcMode == (control \div 128) % 4
        destReload == destMode = 3
        destIncrement == CASE destMode \in {0, 3} -> <<0, unitSize>>
                           [] destMode = 1 -> <<0, 256 - unitSize>>
                           [] OTHER -> WZero
        srcIncrement == CASE srcMode = 0 -> <<0, unitSize>>
                          [] srcMode = 1 -> WNeg(<<0, unitSize>>)
                          [] OTHER -> WZero
        logged(moved, s3) ==
            dmaTransferFromUnsigned(
                [s3 EXCEPT !.runs = Append(@,
                    [ch |-> ch, timing |-> timing, line |-> s.mem.vcount,
                     control |-> control,
                     src0 |-> s.mem.dmaSrc[ch], dest0 |-> s.mem.dmaDest[ch],
                     count0 |-> s.mem.dmaCount[ch],
                     units |-> Len(moved.trace) - Len(s.trace),
                     srcEnd |-> moved.mem.dmaSrc[ch], destEnd |-> moved.mem.dmaDest[ch],
                     srcAfter |-> s3.mem.dmaSrc[ch], destAfter |-> s3.mem.dmaDest[ch],
                     countAfter |-> s3.mem.dmaCount[ch],
                     controlAfter |-> s3.mem.dma[ch].control,
                     regCount |-> s3.mem.dma[ch].count,
                     regDest |-> s3.mem.dma[ch].destination,
                     ifBefore |-> s.mem.i_f, ifAfter |-> s3.mem.i_f])],
                timing, ch + 1)
        repeat(s2) ==
            IF And16(s2.mem.dma[ch].control, DMA_REP) # 0
            THEN [s2 EXCEPT !.mem.dmaCount[ch] = <<0, s2.mem.dma[ch].count>>,
                            !.mem.dmaDest[ch] = IF destReload THEN s2.mem.dma[ch].destination
                                                ELSE @]
            ELSE [s2 EXCEPT !.mem.dma[ch].control = And16(@, 65535 - DMA_ENB)]
        finish(moved) ==
            logged(moved,
                   repeat(IF And16(moved.mem.dma[ch].control, DMA_IRQ) # 0
                          THEN triggerIRQ(moved, 256 * (2 ^ ch)) ELSE moved))
    IN  IF ch > 3 THEN s
        ELSE IF And16(control, DMA_ENB) = 0 \/ (control \div 4096) % 4 # timing
             THEN dmaTransferFromUnsigned(s, timing, ch + 1)
             ELSE finish(dmaUnits(IF ch = 3 THEN [s EXCEPT !.mem.eepromIdx = 0] ELSE s,
                                  ch, destIncrement, srcIncrement))

(* the loop for (ch = 0; ch < 4; ch++) of dmaTransfer(timing), from ch on; *)
(* every channel run is appended to runs (observation)                     *)
RECURSIVE dmaTransferFrom(_, _, _)
dmaTransferFrom(s, timing, ch) ==
    LET control == s.mem.dma[ch].control
        unitSize == IF And16(control, DMA_32) # 0 THEN 4 ELSE 2
        destMode == (control \div 32) % 4
        srcMode == (control \div 128) % 4
        destReload == destMode = 3
        destIncrement == CASE destMode \in {0, 3} -> <<0, unitSize>>
                           [] destMode = 1 -> WNeg(<<0, unitSize>>)
                           [] OTHER -> WZero
        srcIncrement == CASE srcMode = 0 -> <<0, unitSize>>
                          [] srcMode = 1 -> WNeg(<<0, unitSize>>)
                          [] OTHER -> WZero
        logged(moved, s3) ==
            dmaTransferFrom(
                [s3 EXCEPT !.runs = Append(@,
                    [ch |-> ch, timing |-> timing, line |-> s.mem.vcount,
                     control |-> control,
                     src0 |-> s.mem.dmaSrc[ch], dest0 |-> s.mem.dmaDest[ch],
                     count0 |-> s.mem.dmaCount[ch],
                     units |-> Len(moved.trace) - Len(s.trace),
                     srcEnd |-> moved.mem.dmaSrc[ch], destEnd |-> moved.mem.dmaDest[ch],
                     srcAfter |-> s3.mem.dmaSrc[ch], destAfter |-> s3.mem.dmaDest[ch],
                     countAfter |-> s3.mem.dmaCount[ch],
                     controlAfter |-> s3.mem.dma[ch].control,
                     regCount |-> s3.mem.dma[ch].count,
                     regDest |-> s3.mem.dma[ch].destination,
                     ifBefore |-> s.mem.i_f, ifAfter |-> s3.mem.i_f])],
                timing, ch + 1)
        repeat(s2) ==
            IF And16(s2.mem.dma[ch].control, DMA_REP) # 0
            THEN [s2 EXCEPT !.mem.dmaCount[ch] = <<0, s2.mem.dma[ch].count>>,
                            !.mem.dmaDest[ch] = IF destReload THEN s2.mem.dma[ch].destination
                                                ELSE @]
            ELSE [s2 EXCEPT !.mem.dma[ch].control = And16(@, 65535 - DMA_ENB)]
        finish(moved) ==
            logged(moved,
                   repeat(IF And16(moved.mem.dma[ch].control, DMA_IRQ) # 0
                          THEN triggerIRQ(moved, 256 * (2 ^ ch)) ELSE moved))
    IN  IF ch > 3 THEN s
        ELSE IF And16(control, DMA_ENB) = 0 \/ (control \div 4096) % 4 # timing
             THEN dmaTransferFrom(s, timing, ch + 1)
             ELSE finish(dmaUnits(IF ch = 3 THEN [s EXCEPT !.mem.eepromIdx = 0] ELSE s,
                                  ch, destIncrement, srcIncrement))

(* dmaTransfer serving channel 3 before the others *)
dmaTransferHighFirst(s, timing) ==
    dmaTransferFrom(dmaTransferFrom(s, timing, 3), timing, 0)

dmaTransfer(s, timing) == dmaTransferFrom(s, timing, 0)

(* dmaLoad latching on every write that has the enable bit set *)
dmaLoadWheneverEnabled(s, ch, value) ==
    LET align(s1, w) == IF And16(s1.mem.dma[ch].control, DMA_32) # 0
                        THEN <<w[1], w[2] - (w[2] % 4)>>
                        ELSE <<w[1], w[2] - (w[2] % 2)>>
        latch(s1) ==
            dmaTransfer([s1 EXCEPT !.mem.dmaDest[ch] = align(s1, s1.mem.dma[ch].destination),
                                   !.mem.dmaSrc[ch] = align(s1, s1.mem.dma[ch].source),
                                   !.mem.dmaCount[ch] = <<0, s1.mem.dma[ch].count>>],
                        IMMEDIATELY)
        written(old, s1) ==
            IF And16(value, 128) # 0 THEN latch(s1) ELSE s1
    IN  written(s.mem.dma[ch].control \div 256,
                [s EXCEPT !.mem.dma[ch].control = (@ % 256) + 256 * value])

dmaLoad(s, ch, value) ==
    LET align(s1, w) == IF And16(s1.mem.dma[ch].control, DMA_32) # 0
                        THEN <<w[1], w[2] - (w[2] % 4)>>
                        ELSE <<w[1], w[2] - (w[2] % 2)>>
        latch(s1) ==
            dmaTransfer([s1 EXCEPT !.mem.dmaDest[ch] = align(s1, s1.mem.dma[ch].destination),
                                   !.mem.dmaSrc[ch] = align(s1, s1.mem.dma[ch].source),
                                   !.mem.dmaCount[ch] = <<0, s1.mem.dma[ch].count>>],
                        IMMEDIATELY)
        written(old, s1) ==
            IF And16(And16(Xor16(old, value), value), 128) # 0 THEN latch(s1) ELSE s1
    IN  written(s.mem.dma[ch].control \div 256,
                [s EXCEPT !.mem.dma[ch].control = (@ % 256) + 256 * value])

(* memWriteIO with the H-blank request raised again when DISPSTAT is       *)
(* written with the H-blank enable bit during H-blank                     *)
memWriteIORaisesOnEnable(s, addr, byte) ==
    LET a == addr[2]
        t == (a - 256) \div 4
        (* REG_DMA0SAD = 0x040000B0, twelve bytes per channel *)
        ch == (a - 176) \div 12
        d == (a - 176) % 12
        (* REG_BG2PA = 0x04000020, REG_BG3PA = 0x04000030 *)
        bg == (a - 32) \div 16
        (* the writes of IE and IME end with a call of cpuCheckIRQ *)
        check(s1) == IF a \in {512, 513, 520, 521} THEN cpuCheckIRQ(s1) ELSE s1
    IN  IF addr[1] # 1024 THEN s
        ELSE check(
             CASE a = 4 ->
                    (IF And16(s.mem.dispstat, 2) # 0 /\ And16(byte, 16) # 0
                     THEN triggerIRQ(s, 2) ELSE s)
               [] a = 5 -> [s EXCEPT !.mem.dispstat = SetHi(@, byte)]
               [] a = 0 ->
                    [s EXCEPT !.mem.dispcnt =
                        SetLo(@, IF s.cpu.regs[15][1] > 0 \/ s.cpu.regs[15][2] >= 16384
                                 THEN And16(byte, 247) ELSE byte)]
               [] a = 1 -> [s EXCEPT !.mem.dispcnt = SetHi(@, byte)]
               [] a \in 32..63 /\ a % 16 \in 2..3 ->
                    [s EXCEPT !.mem.bgpb[bg] = IF a % 2 = 0 THEN SetLo(@, byte)
                                               ELSE SetHi(@, byte)]
               [] a \in 32..63 /\ a % 16 \in 4..5 ->
                    [s EXCEPT !.mem.bgpc[bg] = IF a % 2 = 0 THEN SetLo(@, byte)
                                               ELSE SetHi(@, byte)]
               [] a \in 32..63 /\ a % 16 \in 6..7 ->
                    [s EXCEPT !.mem.bgpd[bg] = IF a % 2 = 0 THEN SetLo(@, byte)
                                               ELSE SetHi(@, byte)]
               [] a \in 32..63 /\ a % 16 \in 8..11 ->
                    [s EXCEPT !.mem.bgx[bg] = SetByte(@, a % 4, byte),
                              !.mem.internalPX[bg] = SetByte(@, a % 4, byte)]
               [] a \in 32..63 /\ a % 16 \in 12..15 ->
                    [s EXCEPT !.mem.bgy[bg] = SetByte(@, a % 4, byte),
                              !.mem.internalPY[bg] = SetByte(@, a % 4, byte)]
               [] a \in 176..223 /\ d \in 0..3 ->
                    [s EXCEPT !.mem.dma[ch].source = SetByte(@, d, byte)]
               [] a \in 176..223 /\ d \in 4..7 ->
                    [s EXCEPT !.mem.dma[ch].destination = SetByte(@, d - 4, byte)]
               [] a \in 176..223 /\ d = 8 -> [s EXCEPT !.mem.dma[ch].count = SetLo(@, byte)]
               [] a \in 176..223 /\ d = 9 -> [s EXCEPT !.mem.dma[ch].count = SetHi(@, byte)]
               [] a \in 176..223 /\ d = 10 ->
                    [s EXCEPT !.mem.dma[ch].control = SetLo(@, And16(byte, 224))]
               [] a \in 176..223 /\ d = 11 -> dmaLoad(s, ch, byte)
               [] a \in 256..271 /\ a % 4 = 0 ->
                    [s EXCEPT !.mem.timers[t].reload = SetLo(@, byte)]
               [] a \in 256..271 /\ a % 4 = 1 ->
                    [s EXCEPT !.mem.timers[t].reload = SetHi(@, byte)]
               [] a \in 256..271 /\ a % 4 = 2 -> memWriteTimer(s, t, byte)
               [] a \in 256..271 /\ a % 4 = 3 ->
                    [s EXCEPT !.mem.timers[t].control = SetHi(@, byte)]
               [] a = 512 -> [s EXCEPT !.mem.ie = SetLo(@, byte)]
               [] a = 513 -> [s EXCEPT !.mem.ie = SetHi(@, byte)]
               [] a = 514 -> [s EXCEPT !.mem.i_f = SetLo(@, And16(@ % 256, 255 - byte))]
               [] a = 515 -> [s EXCEPT !.mem.i_f = SetHi(@, And16(@ \div 256, 255 - byte))]
               [] a = 520 -> [s EXCEPT !.mem.ime = SetLo(@, byte)]
               [] a = 521 -> [s EXCEPT !.mem.ime = SetHi(@, byte)]
               [] a = 768 -> [s EXCEPT !.mem.postflag = byte]
               [] a = 769 -> [s EXCEPT !.mem.powerDown = TRUE]
               [] OTHER -> s)

(* memWriteIO(addr, byte) for the LCD status, DMA, timer and interrupt     *)
(* registers; addr is the full address the switch compares                 *)
memWriteIO(s, addr, byte) ==
    LET a == addr[2]
        t == (a - 256) \div 4
        (* REG_DMA0SAD = 0x040000B0, twelve bytes per channel *)
        ch == (a - 176) \div 12
        d == (a - 176) % 12
        (* REG_BG2PA = 0x04000020, REG_BG3PA = 0x04000030 *)
        bg == (a - 32) \div 16
        (* the writes of IE and IME end with a call of cpuCheckIRQ *)
        check(s1) == IF a \in {512, 513, 520, 521} THEN cpuCheckIRQ(s1) ELSE s1
    IN  IF addr[1] # 1024 THEN s
        ELSE check(
             CASE a = 4 ->
                    [s EXCEPT !.mem.dispstat =
                        SetLo(@, Or16(And16(@ % 256, 71), And16(byte, 255 - 71)))]
               [] a = 5 -> [s EXCEPT !.mem.dispstat = SetHi(@, byte)]
               [] a = 0 ->
                    [s EXCEPT !.mem.dispcnt =
                        SetLo(@, IF s.cpu.regs[15][1] > 0 \/ s.cpu.regs[15][2] >= 16384
                                 THEN And16(byte, 247) ELSE byte)]
               [] a = 1 -> [s EXCEPT !.mem.dispcnt = SetHi(@, byte)]
               [] a \in 32..63 /\ a % 16 \in 2..3 ->
                    [s EXCEPT !.mem.bgpb[bg] = IF a % 2 = 0 THEN SetLo(@, byte)
                                               ELSE SetHi(@, byte)]
               [] a \in 32..63 /\ a % 16 \in 4..5 ->
                    [s EXCEPT !.mem.bgpc[bg] = IF a % 2 = 0 THEN SetLo(@, byte)
                                               ELSE SetHi(@, byte)]
               [] a \in 32..63 /\ a % 16 \in 6..7 ->
                    [s EXCEPT !.mem.bgpd[bg] = IF a % 2 = 0 THEN SetLo(@, byte)
                                               ELSE SetHi(@, byte)]
               [] a \in 32..63 /\ a % 16 \in 8..11 ->
                    [s EXCEPT !.mem.bgx[bg] = SetByte(@, a % 4, byte),
                              !.mem.internalPX[bg] = SetByte(@, a % 4, byte)]
               [] a \in 32..63 /\ a % 16 \in 12..15 ->
                    [s EXCEPT !.mem.bgy[bg] = SetByte(@, a % 4, byte),
                              !.mem.internalPY[bg] = SetByte(@, a % 4, byte)]
               [] a \in 176..223 /\ d \in 0..3 ->
                    [s EXCEPT !.mem.dma[ch].source = SetByte(@, d, byte)]
               [] a \in 176..223 /\ d \in 4..7 ->
                    [s EXCEPT !.mem.dma[ch].destination = SetByte(@, d - 4, byte)]
               [] a \in 176..223 /\ d = 8 -> [s EXCEPT !.mem.dma[ch].count = SetLo(@, byte)]
               [] a \in 176..223 /\ d = 9 -> [s EXCEPT !.mem.dma[ch].count = SetHi(@, byte)]
               [] a \in 176..223 /\ d = 10 ->
                    [s EXCEPT !.mem.dma[ch].control = SetLo(@, And16(byte, 224))]
               [] a \in 176..223 /\ d = 11 -> dmaLoad(s, ch, byte)
               [] a \in 256..271 /\ a % 4 = 0 ->
                    [s EXCEPT !.mem.timers[t].reload = SetLo(@, byte)]
               [] a \in 256..271 /\ a % 4 = 1 ->
                    [s EXCEPT !.mem.timers[t].reload = SetHi(@, byte)]
               [] a \in 256..271 /\ a % 4 = 2 -> memWriteTimer(s, t, byte)
               [] a \in 256..271 /\ a % 4 = 3 ->
                    [s EXCEPT !.mem.timers[t].control = SetHi(@, byte)]
               [] a = 512 -> [s EXCEPT !.mem.ie = SetLo(@, byte)]
               [] a = 513 -> [s EXCEPT !.mem.ie = SetHi(@, byte)]
               [] a = 514 -> [s EXCEPT !.mem.i_f = SetLo(@, And16(@ % 256, 255 - byte))]
               [] a = 515 -> [s EXCEPT !.mem.i_f = SetHi(@, And16(@ \div 256, 255 - byte))]
               [] a = 520 -> [s EXCEPT !.mem.ime = SetLo(@, byte)]
               [] a = 521 -> [s EXCEPT !.mem.ime = SetHi(@, byte)]
               [] a = 768 -> [s EXCEPT !.mem.postflag = byte]
               [] a = 769 -> [s EXCEPT !.mem.powerDown = TRUE]
               [] OTHER -> s)

(* flashWrite leaving the mode at WRITE after the data byte *)
flashWriteStaysInWrite(s, address, value) ==
    LET off == address[2]
        set(img, o) == IF o \in DOMAIN img THEN [img EXCEPT ![o] = value] ELSE img
        used(s1) == IF s1.mem.modeFlash # "IDLE" \/ s1.mem.modeIdFlash
                    THEN [s1 EXCEPT !.mem.usedFlash = TRUE] ELSE s1
        command(s1) ==
            CASE value = 16 ->
                   (IF s1.mem.modeFlash = "ERASE"
                    THEN [s1 EXCEPT !.mem.flash = [a \in DOMAIN @ |-> 255],
                                    !.mem.modeFlash = "IDLE"]
                    ELSE s1)
              [] value = 128 -> [s1 EXCEPT !.mem.modeFlash = "ERASE"]
              [] value = 144 -> [s1 EXCEPT !.mem.modeIdFlash = TRUE]
              [] value = 160 -> [s1 EXCEPT !.mem.modeFlash = "WRITE"]
              [] value = 176 -> [s1 EXCEPT !.mem.modeFlash = "BANK_SWITCH"]
              [] value = 240 -> [s1 EXCEPT !.mem.modeIdFlash = FALSE]
              [] OTHER -> s1
        sector(s1, bankS) ==
            [s1 EXCEPT !.mem.flash =
                          [a \in DOMAIN @ |->
                              IF a \in (s1.mem.flashBank + bankS)
                                        .. (s1.mem.flashBank + bankS + 4095)
                              THEN 255 ELSE @[a]],
                       !.mem.modeFlash = "IDLE"]
        sramStore(s1) == [s1 EXCEPT !.mem.sram = set(@, off)]
    IN  sramStore(
            IF s.mem.modeFlash = "WRITE"
            THEN [s EXCEPT !.mem.flash = set(@, s.mem.flashBank + off)]
            ELSE IF s.mem.modeFlash = "BANK_SWITCH" /\ address = <<3584, 0>>
            THEN [s EXCEPT !.mem.flashBank = (value % 2) * 65536, !.mem.modeFlash = "IDLE"]
            ELSE IF s.mem.sram[21845] = 170 /\ s.mem.sram[10922] = 85
            THEN (IF address = <<3584, 21845>> THEN used(command(s))
                  ELSE IF s.mem.modeFlash = "ERASE" /\ value = 48
                  THEN sector(s, off - (off % 4096))
                  ELSE s)
            ELSE s)

(* flashWrite(address, value).  flashBank | idx is flashBank + idx, the     *)
(* bank being 0 or 0x10000 and idx below 0x10000.                          *)
flashWrite(s, address, value) ==
    LET off == address[2]
        set(img, o) == IF o \in DOMAIN img THEN [img EXCEPT ![o] = value] ELSE img
        used(s1) == IF s1.mem.modeFlash # "IDLE" \/ s1.mem.modeIdFlash
                    THEN [s1 EXCEPT !.mem.usedFlash = TRUE] ELSE s1
        command(s1) ==
            CASE value = 16 ->
                   (IF s1.mem.modeFlash = "ERASE"
                    THEN [s1 EXCEPT !.mem.flash = [a \in DOMAIN @ |-> 255],
                                    !.mem.modeFlash = "IDLE"]
                    ELSE s1)
              [] value = 128 -> [s1 EXCEPT !.mem.modeFlash = "ERASE"]
              [] value = 144 -> [s1 EXCEPT !.mem.modeIdFlash = TRUE]
              [] value = 160 -> [s1 EXCEPT !.mem.modeFlash = "WRITE"]
              [] value = 176 -> [s1 EXCEPT !.mem.modeFlash = "BANK_SWITCH"]
              [] value = 240 -> [s1 EXCEPT !.mem.modeIdFlash = FALSE]
              [] OTHER -> s1
        sector(s1, bankS) ==
            [s1 EXCEPT !.mem.flash =
                          [a \in DOMAIN @ |->
                              IF a \in (s1.mem.flashBank + bankS)
                                        .. (s1.mem.flashBank + bankS + 4095)
                              THEN 255 ELSE @[a]],
                       !.mem.modeFlash = "IDLE"]
        sramStore(s1) == [s1 EXCEPT !.mem.sram = set(@, off)]
    IN  sramStore(
            IF s.mem.modeFlash = "WRITE"
            THEN [s EXCEPT !.mem.flash = set(@, s.mem.flashBank + off),
                           !.mem.modeFlash = "IDLE"]
            ELSE IF s.mem.modeFlash = "BANK_SWITCH" /\ address = <<3584, 0>>
            THEN [s EXCEPT !.mem.flashBank = (value % 2) * 65536, !.mem.modeFlash = "IDLE"]
            ELSE IF s.mem.sram[21845] = 170 /\ s.mem.sram[10922] = 85
            THEN (IF address = <<3584, 21845>> THEN used(command(s))
                  ELSE IF s.mem.modeFlash = "ERASE" /\ value = 48
                  THEN sector(s, off - (off % 4096))
                  ELSE s)
            ELSE s)

(* the tail of the palette arm of memWriteWord, memWriteHalfWord and       *)
(* memWriteByte: addr &= 0x3FE, the halfword at addr of palRAM taken apart *)
(* into r, g, b (each (c & 0x1F) << 3 in a Byte), rgb = 0xFF with          *)
(* (c | (c >> 5)) at bits 8, 16 and 24, stored into palette[addr >> 1]     *)
updatePalette(s, addr) ==
    LET rgb(r, g, b) == <<g + 256 * b, 255 + 256 * r>>
        c8(c) == c + (c \div 32)
        colour(pixel) == rgb(c8((pixel % 32) * 8), c8(((pixel \div 32) % 32) * 8),
                             c8(((pixel \div 1024) % 32) * 8))
        half(w, off) == IF off % 4 = 0 THEN w[2] ELSE w[1]
        at(off) == [s EXCEPT !.mem.palette =
                       PutWord(@, off \div 2,
                               colour(half(WordAt(s.mem.palRAM, off - (off % 4)), off)))]
    IN  at((addr[2] % 1024) - (addr[2] % 2))

(* the calls memWriteIO(addr + n, byte n) a write to the I/O registers is  *)
(* split into, in ascending order of n, from byte i of bytes on            *)
RECURSIVE memWriteIOBytes(_, _, _, _)
memWriteIOBytes(s, addr, bytes, i) ==
    IF i > Len(bytes) THEN s
    ELSE memWriteIOBytes(memWriteIO(s, <<addr[1], addr[2] + i - 1>>, bytes[i]),
                         addr, bytes, i + 1)

memWriteWord(s, addr0, word) ==
    LET addr == <<addr0[1], addr0[2] - (addr0[2] % 4)>>
        r == WriteRegion(addr)
    IN  CASE r = 2 -> [s EXCEPT !.mem.eWRAM = PutWord(@, (addr[1] % 4) * 65536 + addr[2], word)]
          [] r = 3 -> [s EXCEPT !.mem.iWRAM = PutWord(@, addr[2] % 32768, word)]
          [] r = 4 -> memWriteIOBytes(s, addr, <<ByteOf(word, 0), ByteOf(word, 1),
                                                  ByteOf(word, 2), ByteOf(word, 3)>>, 1)
          [] r = 5 -> updatePalette([s EXCEPT !.mem.palRAM = PutWord(@, addr[2] % 1024, word)],
                                    addr)
          [] r = 6 -> [s EXCEPT !.mem.vram = PutWord(@, vramOffset(addr), word)]
          [] r = 7 -> [s EXCEPT !.mem.oam = PutWord(@, addr[2] % 1024, word)]
          [] r \in 14..15 ->
                flashWrite(flashWrite(flashWrite(flashWrite(s, addr, ByteOf(word, 0)),
                                                 <<addr[1], addr[2] + 1>>, ByteOf(word, 1)),
                                      <<addr[1], addr[2] + 2>>, ByteOf(word, 2)),
                           <<addr[1], addr[2] + 3>>, ByteOf(word, 3))
          [] OTHER -> s

(* memWriteHalfWord with the VRAM offset taken as addr & 0x1ffff: the     *)
(* upper 32 KiB mirror is not folded onto 0x10000..0x17fff                *)
memWriteHalfWordNoFold(s, addr0, halfword) ==
    LET addr == <<addr0[1], addr0[2] - (addr0[2] % 2)>>
        r == WriteRegion(addr)
        al == addr[2] - (addr[2] % 4)
        put(img, off) ==
            LET w == WordAt(img, off)
            IN  PutWord(img, off, IF addr[2] % 4 = 0 THEN <<w[1], halfword>>
                                   ELSE <<halfword, w[2]>>)
    IN  CASE r = 2 -> [s EXCEPT !.mem.eWRAM = put(@, (addr[1] % 4) * 65536 + al)]
          [] r = 3 -> [s EXCEPT !.mem.iWRAM = put(@, al % 32768)]
          [] r = 4 -> memWriteIOBytes(s, addr, <<halfword % 256, halfword \div 256>>, 1)
          [] r = 5 -> updatePalette([s EXCEPT !.mem.palRAM = put(@, al % 1024)], addr)
          [] r = 6 -> [s EXCEPT !.mem.vram = put(@, (addr[1] % 2) * 65536 + al)]
          [] r = 7 -> [s EXCEPT !.mem.oam = put(@, al % 1024)]
          [] r \in 14..15 -> flashWrite(flashWrite(s, addr, halfword % 256),
                                        <<addr[1], addr[2] + 1>>, halfword \div 256)
          [] OTHER -> s

memWriteHalfWord(s, addr0, halfword) ==
    LET addr == <<addr0[1], addr0[2] - (addr0[2] % 2)>>
        r == WriteRegion(addr)
        al == addr[2] - (addr[2] % 4)
        put(img, off) ==
            LET w == WordAt(img, off)
            IN  PutWord(img, off, IF addr[2] % 4 = 0 THEN <<w[1], halfword>>
                                   ELSE <<halfword, w[2]>>)
    IN  CASE r = 2 -> [s EXCEPT !.mem.eWRAM = put(@, (addr[1] % 4) * 65536 + al)]
          [] r = 3 -> [s EXCEPT !.mem.iWRAM = put(@, al % 32768)]
          [] r = 4 -> memWriteIOBytes(s, addr, <<halfword % 256, halfword \div 256>>, 1)
          [] r = 5 -> updatePalette([s EXCEPT !.mem.palRAM = put(@, al % 1024)], addr)
          [] r = 6 -> [s EXCEPT !.mem.vram = put(@, vramOffset(<<addr[1], al>>))]
          [] r = 7 -> [s EXCEPT !.mem.oam = put(@, al % 1024)]
          [] r \in 14..15 -> flashWrite(flashWrite(s, addr, halfword % 256),
                                        <<addr[1], addr[2] + 1>>, halfword \div 256)
          [] OTHER -> s

memWriteByte(s, addr, byte) ==
    LET r == WriteRegion(addr)
        al == addr[2] - (addr[2] % 4)
        put(img, off) == PutWord(img, off, SetByte(WordAt(img, off), addr[2] % 4, byte))
        (* the byte at byte offset b of an image *)
        putAt(img, b) == PutWord(img, b - (b % 4), SetByte(WordAt(img, b - (b % 4)), b % 4, byte))
        (* palette: addr &= 0x3FE after the first store, newAddr = addr + 1 *)
        newAddr == (addr[2] % 1024) - (addr[2] % 2) + 1
    IN  CASE r = 2 -> [s EXCEPT !.mem.eWRAM = put(@, (addr[1] % 4) * 65536 + al)]
          [] r = 3 -> [s EXCEPT !.mem.iWRAM = put(@, al % 32768)]
          [] r = 4 -> memWriteIOBytes(s, addr, <<byte>>, 1)
          [] r = 5 -> updatePalette([s EXCEPT !.mem.palRAM = putAt(putAt(@, addr[2] % 1024),
                                                                   newAddr)],
                                    addr)
          [] r = 6 -> [s EXCEPT !.mem.vram = putAt(putAt(@, vramOffset(addr)),
                                                   vramOffset(WAdd(addr, <<0, 1>>)))]
          [] r = 7 -> s
          [] r \in 14..15 -> flashWrite(s, addr, byte)
          [] OTHER -> s

(* ---------------------------------------------------------------------- *)
(* cpu.c / armInstructions.c / thumbInstructions.c: decode                 *)
(* ---------------------------------------------------------------------- *)
(* (code & formatMask) == format *)
Fmt(code, mask, format) == WAnd(code, mask) = format

(* the ARM chain of decodeInstruction, in its order; "NONE" is the         *)
(* DECODE ERROR branch                                                     *)
armDecode(c) ==
    CASE Fmt(c, <<4095, 65520>>, <<303, 65296>>) -> "BX"
      [] Fmt(c, <<3584, 0>>, <<2048, 0>>) -> "BDT"
      [] Fmt(c, <<3840, 0>>, <<2560, 0>>) \/ Fmt(c, <<3840, 0>>, <<2816, 0>>) -> "BL"
      [] Fmt(c, <<3840, 0>>, <<3840, 0>>) -> "SWI"
      [] Fmt(c, <<3584, 16>>, <<1536, 16>>) -> "UND"
      [] Fmt(c, <<3072, 0>>, <<1024, 0>>) -> "SDT"
      [] Fmt(c, <<3968, 4080>>, <<256, 144>>) -> "SDS"
      [] Fmt(c, <<3968, 240>>, <<0, 144>>) \/ Fmt(c, <<3968, 240>>, <<128, 144>>) -> "MUL"
      [] Fmt(c, <<3648, 3984>>, <<0, 144>>) \/ Fmt(c, <<3648, 144>>, <<64, 144>>) -> "HDTRI"
      [] Fmt(c, <<4031, 0>>, <<271, 0>>) \/ Fmt(c, <<3504, 61440>>, <<288, 61440>>) -> "PSRT"
      [] Fmt(c, <<3072, 0>>, <<0, 0>>) -> "DPROC"
      [] OTHER -> "NONE"

(* the Thumb chain of decodeInstruction; the predicates take a HalfWord *)
thumbDecode(c) ==
    LET h == c[2]
        F(mask, format) == And16(h, mask) = format
    IN  CASE F(65280, 57088) -> "TSWI"
          [] F(63488, 57344) -> "UB"
          [] F(61440, 53248) -> "CB"
          [] F(61440, 49152) -> "MLS"
          [] F(61440, 61440) -> "LBL"
          [] F(65280, 45056) -> "AOSP"
          [] F(62976, 46080) -> "PPR"
          [] F(61440, 32768) -> "LSH"
          [] F(61440, 36864) -> "SPRLS"
          [] F(61440, 40960) -> "LA"
          [] F(57344, 24576) -> "LSIO"
          [] F(61952, 20480) -> "LSRO"
          [] F(61952, 20992) -> "LSSEBH"
          [] F(63488, 18432) -> "PCRL"
          [] F(64512, 17408) -> "HROBX"
          [] F(64512, 16384) -> "ALU"
          [] F(57344, 8192) -> "MCASI"
          [] F(63488, 6144) -> "AS"
          [] F(57344, 0) -> "MSR"
          [] OTHER -> "NONE"

(* decodeInstruction(instr): refills the latch, then classifies; exit(-9)  *)
(* when no pattern matches                                                 *)
decodeInstruction(s, instr) ==
    LET refill(f) == [f.s EXCEPT !.cpu.pipeline = f.v]
        classify(s1, type) ==
            [type |-> type, s |-> IF type = "NONE" THEN [s1 EXCEPT !.exit = 9] ELSE s1]
        decode(s1) ==
            classify(s1, IF cpuInThumb(s1) THEN thumbDecode(instr) ELSE armDecode(instr))
    IN  decode(refill(fetchInstruction(s)))

(* ---------------------------------------------------------------------- *)
(* armProc.c                                                               *)
(* ---------------------------------------------------------------------- *)
AddCycles(s, n) == [s EXCEPT !.cpu.cycle = @ + n]

PC_VALUE(s) ==
    IF THUMB_ACTIVATED(s) = 1 THEN WAdd(s.cpu.regs[15], <<0, 2>>)
    ELSE WAdd(s.cpu.regs[15], <<0, 4>>)

(* field of n bits of instr starting at bit lo *)
Bits(instr, lo, n) ==
    IF lo >= 16 THEN (instr[1] \div (2 ^ (lo - 16))) % (2 ^ n)
    ELSE IF lo + n <= 16 THEN (instr[2] \div (2 ^ lo)) % (2 ^ n)
    ELSE ((instr[2] \div (2 ^ lo)) + (instr[1] % (2 ^ (lo + n - 16))) * (2 ^ (16 - lo)))

(* barrelShifter: v is the returned operand, c the value left in cpu->carry *)
barrelShifter(shiftType, operand2, shift, regShiftByImm, cpsr) ==
    LET msb == WBit(operand2, 31)
    IN  IF ~regShiftByImm /\ shift = 0 THEN [v |-> operand2, c |-> CC_UNMOD]
        ELSE CASE shiftType = 0 ->
                    (CASE shift = 0 -> [v |-> operand2, c |-> CC_UNMOD]
                       [] shift = 32 -> [v |-> WZero, c |-> operand2[2] % 2]
                       [] shift > 32 -> [v |-> WZero, c |-> 0]
                       [] OTHER -> [v |-> WShl(operand2, shift),
                                    c |-> WBit(WShl(operand2, shift - 1), 31)])
               [] shiftType = 1 ->
                    (CASE shift = 0 -> [v |-> WZero, c |-> msb]
                       [] shift = 32 -> [v |-> WZero, c |-> msb]
                       [] shift > 32 -> [v |-> WZero, c |-> 0]
                       [] OTHER -> [v |-> WShr(operand2, shift),
                                    c |-> WShr(operand2, shift - 1)[2] % 2])
               [] shiftType = 2 ->
                    IF (regShiftByImm /\ shift = 0) \/ shift > 31
                    THEN [v |-> IF msb = 1 THEN <<65535, 65535>> ELSE WZero, c |-> msb]
                    ELSE [v |-> WAsr(operand2, shift),
                          c |-> WAsr(operand2, shift - 1)[2] % 2]
               [] shiftType = 3 ->
                    IF regShiftByImm /\ shift = 0
                    THEN [v |-> WOr(WShl(<<0, WBit(cpsr, 29)>>, 31), WShr(operand2, 1)),
                          c |-> operand2[2] % 2]
                    ELSE [v |-> WRor(operand2, shift), c |-> WBit(WRor(operand2, shift), 31)]

procBX(s, instr) ==
    LET rnVal == getReg(s, Bits(instr, 0, 4))
        s1 == IF rnVal[2] % 2 = 1
              THEN updatePC([s EXCEPT !.cpu.cpsr = WSetBit(@, 5, TRUE)],
                            <<rnVal[1], rnVal[2] - 1>>)
              ELSE updatePC([s EXCEPT !.cpu.cpsr = WSetBit(@, 5, FALSE)],
                            <<rnVal[1], rnVal[2] - (rnVal[2] % 4)>>)
    IN  AddCycles(s1, 3)

procBL(s, instr) ==
    LET L == Bits(instr, 24, 1)
        imm24 == Bits(instr, 16, 8) * 65536 + instr[2]
        off0 == IF imm24 >= 8388608 THEN WSub(WNat(imm24 * 4), <<1024, 0>>)
                ELSE WNat(imm24 * 4)
        offset == IF THUMB_ACTIVATED(s) = 1 THEN WAsr(off0, 1) ELSE off0
        s1 == IF L = 1 THEN setReg(s, 14, WSub(s.cpu.regs[15], <<0, 4>>)) ELSE s
    IN  AddCycles(updatePC(s1, WAdd(s1.cpu.regs[15], offset)), 3)

procSWI(s, instr) ==
    LET s1 == [s EXCEPT !.cpu.regsSVC[1] = WSub(s.cpu.regs[15], <<0, 4>>),
                        !.cpu.spsr_svc = s.cpu.cpsr]
        s2 == updatePC(updateCPUMode(s1, SVC), <<0, 8>>)
    IN  LogEntry(AddCycles(s2, 3), "swi", SVC, s)

procUND(s, instr) == AddCycles(s, 1)

procSDT(s, instr) ==
    LET i == Bits(instr, 25, 1)
        p == Bits(instr, 24, 1)
        u == Bits(instr, 23, 1)
        b == Bits(instr, 22, 1)
        t == Bits(instr, 21, 1)
        l == Bits(instr, 20, 1)
        rn == Bits(instr, 16, 4)
        rd == Bits(instr, 12, 4)
        shouldWriteBack == p = 0 \/ (p = 1 /\ t = 1)
        cycles == IF l = 1 THEN 3 + (IF rd = 15 THEN 2 ELSE 0) ELSE 2
        sh == barrelShifter(Bits(instr, 5, 2), getReg(s, Bits(instr, 0, 4)),
                            Bits(instr, 7, 5), TRUE, s.cpu.cpsr)
        s0 == IF i = 1 THEN [s EXCEPT !.cpu.carry = sh.c] ELSE s
        off0 == IF i = 1 THEN sh.v ELSE <<0, instr[2] % 4096>>
        offset == IF u = 0 THEN WNeg(off0) ELSE off0
        addr == WAdd(getReg(s0, rn), IF p = 1 THEN offset ELSE WZero)
        storedVal == WAdd(getReg(s0, rd), IF rd = 15 THEN <<0, 4>> ELSE WZero)
        writeBack(s1) ==
            IF shouldWriteBack /\ (l = 0 \/ rn # rd)
            THEN setReg(s1, rn, WAdd(WAdd(getReg(s1, rn),
                                          IF rn = 15 THEN <<0, 4>> ELSE WZero), offset))
            ELSE s1
    IN  IF p = 0 /\ t = 1 THEN [s0 EXCEPT !.exit = 1]
        ELSE AddCycles(
               writeBack(
                 IF l = 1
                 THEN setReg(s0, rd, IF b = 1 THEN <<0, memReadByte(s0, addr)>>
                                     ELSE WRor(memReadWord(s0, addr), (addr[2] % 4) * 8))
                 ELSE IF b = 1 THEN memWriteByte(s0, addr, storedVal[2] % 256)
                 ELSE memWriteWord(s0, addr, storedVal)),
               cycles)

procHDTRI(s, instr) ==
    LET p == Bits(instr, 24, 1)
        u == Bits(instr, 23, 1)
        i == Bits(instr, 22, 1)
        w == Bits(instr, 21, 1)
        l == Bits(instr, 20, 1)
        rn == Bits(instr, 16, 4)
        rd == Bits(instr, 12, 4)
        sh == Bits(instr, 5, 2)
        shouldWriteBack == (p = 1 /\ w = 1) \/ p = 0
        cycles == IF l = 1 THEN 3 + (IF rd = 15 THEN 2 ELSE 0) ELSE 2
        sx8(v) == IF v >= 128 THEN <<65535, 65280 + v>> ELSE <<0, v>>
        sx16(v) == IF v >= 32768 THEN <<65535, v>> ELSE <<0, v>>
        off0 == IF i = 1 THEN <<0, Bits(instr, 8, 4) * 16 + Bits(instr, 0, 4)>>
                ELSE getReg(s, Bits(instr, 0, 4))
        offset == IF u = 0 THEN WNeg(off0) ELSE off0
        addr == WAdd(getReg(s, rn), IF p = 1 THEN offset ELSE WZero)
        odd == addr[2] % 2 = 1
        writeBack(s1) ==
            IF shouldWriteBack /\ (l = 0 \/ rn # rd)
            THEN setReg(s1, rn, WAdd(WAdd(getReg(s1, rn),
                                          IF rn = 15 THEN <<0, 4>> ELSE WZero), offset))
            ELSE s1
        finish(s1) == IF s1.exit # 0 THEN s1 ELSE AddCycles(writeBack(s1), cycles)
    IN  finish(
          IF l = 1
          THEN (CASE sh = 1 ->
                       setReg(s, rd, IF odd
                                     THEN WRor(<<0, memReadHalfWord(s, WSub(addr, <<0, 1>>))>>, 8)
                                     ELSE <<0, memReadHalfWord(s, addr)>>)
                  [] sh = 2 -> setReg(s, rd, sx8(memReadByte(s, addr)))
                  [] sh = 3 ->
                       setReg(s, rd, IF odd THEN sx8(memReadByte(s, addr))
                                     ELSE sx16(memReadHalfWord(s, addr)))
                  [] OTHER -> s)
          ELSE (CASE sh = 1 -> memWriteHalfWord(s, addr, getReg(s, rd)[2])
                  [] sh \in {2, 3} -> [s EXCEPT !.exit = 1]
                  [] OTHER -> s))

procPSRT(s, instr) ==
    LET psr == Bits(instr, 22, 1)
        I == Bits(instr, 25, 1)
        msr == Bits(instr, 21, 1)
        f == Bits(instr, 19, 1)
        bitsOnly == Bits(instr, 16, 1)
        Rd == Bits(instr, 12, 4)
        flags(v, operand) == <<(v[1] % 256) + (operand[1] - (operand[1] % 256)), v[2]>>
        ctl(v, operand) == <<v[1], (v[2] - (v[2] % 256)) + (operand[2] % 256)>>
        spsrCtl(a1, operand) ==
            IF bitsOnly = 1 THEN setPSR(a1, ctl(getPSR(a1), operand)) ELSE a1
        cpsrCtl(b1, operand) ==
            IF bitsOnly = 1 THEN [b1 EXCEPT !.cpu.cpsr = ctl(@, operand)] ELSE b1
        write(operand) ==
            IF psr = 1
            THEN spsrCtl(IF f = 1 THEN setPSR(s, flags(getPSR(s), operand)) ELSE s, operand)
            ELSE cpsrCtl(IF f = 1 THEN [s EXCEPT !.cpu.cpsr = flags(@, operand)] ELSE s,
                         operand)
    IN  AddCycles(
          IF msr = 1
          THEN write(IF I = 1 THEN WRor(<<0, instr[2] % 256>>, Bits(instr, 8, 4) * 2)
                     ELSE getReg(s, Bits(instr, 0, 4)))
          ELSE IF psr = 1 THEN setReg(s, Rd, getPSR(s))
          ELSE setReg(s, Rd, s.cpu.cpsr),
          1)

(* flag helpers of the data-processing cases *)
B2N(b) == IF b THEN 1 ELSE 0

IsZero(w) == B2N(w = WZero)

SubV(a, b, r) == B2N(WBit(a, 31) # WBit(b, 31) /\ WBit(a, 31) # WBit(r, 31))

AddC(a, b, r) == B2N(WBit(a, 31) + WBit(b, 31) > WBit(r, 31))

AddV(a, b, r) == B2N(WBit(a, 31) = WBit(b, 31) /\ WBit(a, 31) # WBit(r, 31))

procDPROC(s, instr) ==
    LET i == Bits(instr, 25, 1)
        S == Bits(instr, 20, 1)
        rn == Bits(instr, 16, 4)
        rd == Bits(instr, 12, 4)
        r == Bits(instr, 4, 1)
        rm == Bits(instr, 0, 4)
        shiftType == Bits(instr, 5, 2)
        opc == Bits(instr, 21, 4)
        r15Transferred == rd = 15
        regShift == i = 0 /\ r = 1
        swap == opc \in {3, 7}
        cycles == (1 + B2N(r15Transferred)) + B2N(regShift) + B2N(r15Transferred)
        flagsIfS(s0, n, z, c, v) == IF S = 1 THEN setCC(s0, n, z, c, v) ELSE s0
        logic(s0, res, c) ==
            setReg(flagsIfS(s0, WBit(res, 31), IsZero(res), c, CC_UNMOD), rd, res)
        test(s0, res, c) == setCC(s0, WBit(res, 31), IsZero(res), c, CC_UNMOD)
        subtract(s0, a, b, res, c) ==
            setReg(flagsIfS(s0, WBit(res, 31), IsZero(res), c, SubV(a, b, res)), rd, res)
        addition(s0, a, b, res) ==
            setReg(flagsIfS(s0, WBit(res, 31), IsZero(res), AddC(a, b, res), AddV(a, b, res)),
                   rd, res)
        compare(s0, a, b, res) ==
            setCC(s0, WBit(res, 31), IsZero(res), B2N(WGe(a, b)), SubV(a, b, res))
        compareN(s0, a, b, res) ==
            setCC(s0, WBit(res, 31), IsZero(res), AddC(a, b, res), AddV(a, b, res))
        alu(s0, operand1, operand2, c, cin) ==
            CASE opc = 0 -> logic(s0, WAnd(operand1, operand2), c)
              [] opc = 1 -> logic(s0, WXor(operand1, operand2), c)
              [] opc \in {2, 3} ->
                    subtract(s0, operand1, operand2, WSub(operand1, operand2),
                             B2N(WGe(operand1, operand2)))
              [] opc = 4 -> addition(s0, operand1, operand2, WAdd(operand1, operand2))
              [] opc = 5 ->
                    addition(s0, operand1, operand2,
                             WAdd(WAdd(operand1, operand2), <<0, cin>>))
              [] opc \in {6, 7} ->
                    subtract(s0, operand1, operand2,
                             WSub(WSub(operand1, operand2), <<0, 1 - cin>>),
                             IF cin = 1 THEN B2N(WGe(operand1, operand2))
                             ELSE B2N(WGe(operand1, operand2) /\ operand1 # operand2))
              [] opc = 8 -> test(s0, WAnd(operand1, operand2), c)
              [] opc = 9 -> test(s0, WXor(operand1, operand2), c)
              [] opc = 10 -> compare(s0, operand1, operand2, WSub(operand1, operand2))
              [] opc = 11 -> compareN(s0, operand1, operand2, WAdd(operand1, operand2))
              [] opc = 12 -> logic(s0, WOr(operand1, operand2), c)
              [] opc \in {13, 15} -> logic(s0, operand2, c)
              [] opc = 14 -> logic(s0, WAnd(operand1, WNot(operand2)), c)
        finish(s1) ==
            AddCycles(IF S = 1 /\ r15Transferred THEN [s1 EXCEPT !.cpu.cpsr = getPSR(s1)]
                      ELSE s1,
                      cycles)
        operands(s0, op1a, sh) ==
            alu(s0, IF swap THEN sh.v ELSE op1a,
                IF swap THEN op1a ELSE IF opc = 15 THEN WNot(sh.v) ELSE sh.v,
                sh.c, getCC(s0, 29))
        shifted(op1a, sh) == finish(operands([s EXCEPT !.cpu.carry = sh.c], op1a, sh))
        barrel(rmVal) ==
            IF i = 1
            THEN barrelShifter(3, <<0, instr[2] % 256>>, Bits(instr, 8, 4) * 2,
                               FALSE, s.cpu.cpsr)
            ELSE IF r = 1
            THEN barrelShifter(shiftType, rmVal, getReg(s, Bits(instr, 8, 4))[2] % 256,
                               FALSE, s.cpu.cpsr)
            ELSE barrelShifter(shiftType, rmVal, Bits(instr, 7, 5), TRUE, s.cpu.cpsr)
    IN  shifted(IF regShift /\ rn = 15 THEN PC_VALUE(s) ELSE getReg(s, rn),
                barrel(IF r = 1 /\ rm = 15 THEN PC_VALUE(s) ELSE getReg(s, rm)))

(* ---------------------------------------------------------------------- *)
(* thumbProc.c                                                             *)
(* ---------------------------------------------------------------------- *)
procTSWI(s, instr) ==
    LET s1 == [s EXCEPT !.cpu.regsSVC[1] = WSub(s.cpu.regs[15], <<0, 2>>),
                        !.cpu.spsr_svc = s.cpu.cpsr,
                        !.cpu.cpsr = <<@[1], (@[2] - (@[2] % 256)) + 147>>]
    IN  LogEntry(AddCycles(updatePC(s1, <<0, 8>>), 3), "tswi", SVC, s)

procTUB(s, instr) ==
    LET off0 == (instr[2] % 2048) * 2
        offset == IF (off0 \div 2048) % 2 = 1 THEN <<65535, 61440 + off0>> ELSE <<0, off0>>
    IN  AddCycles(updatePC(s, WAdd(s.cpu.regs[15], offset)), 3)

procTCB(s, instr) ==
    LET b == instr[2] % 256
        offset == IF b >= 128 THEN <<65535, 65024 + 2 * b>> ELSE <<0, 2 * b>>
    IN  IF evalCond(s, Bits(instr, 8, 4))
        THEN AddCycles(updatePC(s, WAdd(s.cpu.regs[15], offset)), 3)
        ELSE AddCycles(s, 1)

procTHROBX(s, instr) ==
    LET op == Bits(instr, 8, 2)
        Rs == Bits(instr, 3, 3) + 8 * Bits(instr, 6, 1)
        Rd == Bits(instr, 0, 3) + 8 * Bits(instr, 7, 1)
        a == s.cpu.regs[Rd]
        b == s.cpu.regs[Rs]
        d == WSub(a, b)
        bx1 == updatePC(s, <<b[1], b[2] - (b[2] % 2)>>)
        s1 == CASE op = 0 -> AddCycles(setReg(s, Rd, WAdd(getReg(s, Rs), getReg(s, Rd))), 1)
                [] op = 1 -> AddCycles(setCC(s, WBit(d, 31), IsZero(d), B2N(WGe(a, b)),
                                             SubV(a, b, d)), 1)
                [] op = 2 -> AddCycles(setReg(s, Rd, b), IF Rd = 15 THEN 3 ELSE 1)
                [] op = 3 ->
                     AddCycles([bx1 EXCEPT !.cpu.cpsr =
                                   WSetBit(@, 5, bx1.cpu.regs[Rs][2] % 2 = 1)], 3)
    IN  AddCycles(s1, IF Rd = 15 THEN 2 ELSE 0)

procTMCASI(s, instr) ==
    LET op == Bits(instr, 11, 2)
        Rd == Bits(instr, 8, 3)
        offset == <<0, instr[2] % 256>>
        temp == s.cpu.regs[Rd]
        (* x = <<state, n, z, c, v>> *)
        flags(x) == setCC(x[1], x[2], x[3], x[4], x[5])
        nz(st, c, v) == <<st, WBit(st.cpu.regs[Rd], 31), IsZero(st.cpu.regs[Rd]), c, v>>
        mov(st) == nz(st, CC_UNMOD, CC_UNMOD)
        add(st) == nz(st, AddC(temp, offset, st.cpu.regs[Rd]),
                      AddV(temp, offset, st.cpu.regs[Rd]))
        sub(st) == nz(st, B2N(WGe(temp, offset)),
                      B2N(WBit(temp, 31) # 0 /\ WBit(temp, 31) # WBit(st.cpu.regs[Rd], 31)))
        cmp(d) == <<s, WBit(d, 31), IsZero(d), B2N(WGe(WZero, offset)), 0>>
    IN  AddCycles(
          flags(CASE op = 0 -> mov(setReg(s, Rd, offset))
                  [] op = 1 -> cmp(WSub(temp, offset))
                  [] op = 2 -> add(setReg(s, Rd, WAdd(temp, offset)))
                  [] op = 3 -> sub(setReg(s, Rd, WSub(temp, offset)))),
          1)

(* procTMLS: LDMIA / STMIA Rb!, {Rlist}.  With an empty list both paths   *)
(* return before the cycle counter is advanced.                            *)
procTMLS(s, instr) ==
    LET L == Bits(instr, 11, 1)
        Rb == Bits(instr, 8, 3)
        listed == SelectSeq(<<0, 1, 2, 3, 4, 5, 6, 7>>, LAMBDA i : Bits(instr, i, 1) = 1)
        n == Len(listed)
        addr == s.cpu.regs[Rb]
        at(k) == WAdd(addr, <<0, 4 * (k - 1)>>)
        bumped(s1, by) == [s1 EXCEPT !.cpu.regs[Rb] = WAdd(@, <<0, by>>)]
        (* the state after the first k listed registers are transferred *)
        loaded[k \in 0..n] ==
            IF k = 0 THEN bumped(s, 4 * n)
            ELSE setReg(loaded[k - 1], listed[k], memReadWord(loaded[k - 1], at(k)))
        stored[k \in 1..n] ==
            IF k = 1 THEN bumped(memWriteWord(s, addr, s.cpu.regs[listed[1]]), 4 * n)
            ELSE memWriteWord(stored[k - 1], at(k), stored[k - 1].cpu.regs[listed[k]])
    IN  CASE L = 1 /\ n = 0 -> bumped(setReg(s, 15, memReadWord(s, addr)), 64)
          [] L = 1 /\ n > 0 -> AddCycles(loaded[n], n + 2)
          [] L = 0 /\ n = 0 ->
                bumped(memWriteWord(s, addr, WAdd(s.cpu.regs[15], <<0, 2>>)), 64)
          [] L = 0 /\ n > 0 -> AddCycles(stored[n], n + 1)

(* procTALU.  carry is declared bool: the assignment carry = CC_UNMOD of  *)
(* a shift by zero stores true, and setCC receives 1.  The sums and        *)
(* differences of ADC, SBC and NEG are unsigned int: they never exceed     *)
(* UINT32_MAX, and INT32_MIN and INT32_MAX are converted to unsigned in    *)
(* the comparisons.  MUL is not modelled (no loaded program executes it);  *)
(* Rd is at most 7, so the final Rd == 15 branch is never taken.           *)
procTALU(s, instr) ==
    LET op == Bits(instr, 6, 4)
        Rs == Bits(instr, 3, 3)
        Rd == Bits(instr, 0, 3)
        op1 == s.cpu.regs[Rd]
        op2 == s.cpu.regs[Rs]
        amt == op2[2] % 256
        rot == IF WGe(op2, <<0, 33>>) THEN (WSub(op2, <<0, 1>>)[2] % 32) + 1 ELSE op2[2]
        cin == getCC(s, 29)
        unmod == IF CC_UNMOD # 0 THEN 1 ELSE 0
        inRange == amt >= 1 /\ amt <= 32
        lslHalf == WShl(op1, amt - 1)
        lsrHalf == WShr(op1, amt - 1)
        asrHalf == WAsr(op1, amt - 1)
        adc == WAdd(WAdd(op1, op2), <<0, cin>>)
        sbc == WSub(WSub(op1, op2), <<0, 1 - cin>>)
        neg == WSub(WZero, op2)
        ltMin(x) == B2N(WLt(x, <<32768, 0>>))
        gtMax(x) == B2N(WGe(x, <<32768, 0>>))
        or(a, b) == IF a + b > 0 THEN 1 ELSE 0
        (* r: the value written to Rd (<<>> when none), the flags handed   *)
        (* to setCC and the cycles                                         *)
        res(val, c, v, cyc) ==
            [val |-> <<val>>, n |-> WBit(val, 31), z |-> IsZero(val), c |-> c, v |-> v,
             cyc |-> cyc]
        test(val, c, v) ==
            [val |-> <<>>, n |-> WBit(val, 31), z |-> IsZero(val), c |-> c, v |-> v,
             cyc |-> 1]
        r == CASE op = 0 -> res(WAnd(op1, op2), CC_UNMOD, CC_UNMOD, 1)
               [] op = 1 -> res(WXor(op1, op2), CC_UNMOD, CC_UNMOD, 1)
               [] op = 2 ->
                    (CASE amt = 0 -> res(op1, unmod, CC_UNMOD, 2)
                       [] inRange -> res(WShl(lslHalf, 1), WBit(lslHalf, 31), CC_UNMOD, 2)
                       [] OTHER -> res(WZero, 0, CC_UNMOD, 2))
               [] op = 3 ->
                    (CASE amt = 0 -> res(op1, unmod, CC_UNMOD, 2)
                       [] inRange -> res(WShr(lsrHalf, 1), lsrHalf[2] % 2, CC_UNMOD, 2)
                       [] OTHER -> res(WZero, 0, CC_UNMOD, 2))
               [] op = 4 ->
                    (CASE amt = 0 -> res(op1, unmod, CC_UNMOD, 2)
                       [] inRange -> res(WAsr(asrHalf, 1), asrHalf[2] % 2, CC_UNMOD, 2)
                       [] OTHER -> res(IF WBit(op1, 31) = 1 THEN <<65535, 65535>> ELSE WZero,
                                       WBit(op1, 31), CC_UNMOD, 2))
               [] op = 5 -> res(adc, 0, or(ltMin(adc), gtMax(adc)), 1)
               [] op = 6 -> res(sbc, 1,
                                or(ltMin(sbc),
                                   gtMax(WSub(WSub(sbc, IF Rs = Rd THEN sbc ELSE op2),
                                              <<0, 1 - cin>>))), 1)
               [] op = 7 ->
                    IF op2 = WZero THEN res(op1, unmod, CC_UNMOD, 2)
                    ELSE res(WRor(op1, rot), WShr(op1, rot - 1)[2] % 2, CC_UNMOD, 2)
               [] op = 8 -> test(WAnd(op1, op2), CC_UNMOD, CC_UNMOD)
               [] op = 9 -> res(neg, 1, or(ltMin(neg), gtMax(neg)), 1)
               [] op = 10 -> test(WSub(op1, op2), B2N(WGe(op1, op2)),
                                  SubV(op1, op2, WSub(op1, op2)))
               [] op = 11 -> test(WAdd(op1, op2), AddC(op1, op2, WAdd(op1, op2)),
                                  AddV(op1, op2, WAdd(op1, op2)))
               [] op = 12 -> res(WOr(op1, op2), CC_UNMOD, CC_UNMOD, 1)
               [] op = 14 -> res(WAnd(op1, WNot(op2)), CC_UNMOD, CC_UNMOD, 1)
               [] op = 15 -> res(WNot(op2), CC_UNMOD, CC_UNMOD, 1)
        written == IF r.val = <<>> THEN s ELSE setReg(s, Rd, r.val[1])
    IN  AddCycles(setCC(written, r.n, r.z, r.c, r.v), r.cyc)

(* ---------------------------------------------------------------------- *)
(* cpu.c: execute                                                          *)
(* ---------------------------------------------------------------------- *)
(* the procedures of the instruction classes the loaded programs execute;  *)
(* the remaining classes are decoded but never dispatched here             *)
armDispatch(s, type, instr) ==
    CASE type = "BX" -> procBX(s, instr)
      [] type = "BL" -> procBL(s, instr)
      [] type = "SWI" -> procSWI(s, instr)
      [] type = "UND" -> procUND(s, instr)
      [] type = "SDT" -> procSDT(s, instr)
      [] type = "HDTRI" -> procHDTRI(s, instr)
      [] type = "PSRT" -> procPSRT(s, instr)
      [] type = "DPROC" -> procDPROC(s, instr)

thumbDispatch(s, type, instr) ==
    CASE type = "TSWI" -> procTSWI(s, instr)
      [] type = "UB" -> procTUB(s, instr)
      [] type = "CB" -> procTCB(s, instr)
      [] type = "HROBX" -> procTHROBX(s, instr)
      [] type = "MCASI" -> procTMCASI(s, instr)
      [] type = "ALU" -> procTALU(s, instr)
      [] type = "MLS" -> procTMLS(s, instr)

(* execute(): s is the state after the instruction, cycles the returned    *)
(* count; addr, instr, type, thumb and passed describe the instruction     *)
execute(s) ==
    LET latched == s.cpu.pipeline # WZero
        width == IF cpuInThumb(s) THEN 2 ELSE 4
        addr == IF latched THEN WSub(s.cpu.regs[15], <<0, width>>) ELSE s.cpu.regs[15]
        f == IF latched THEN [v |-> s.cpu.pipeline, s |-> s] ELSE fetchInstruction(s)
        d == decodeInstruction(f.s, f.v)
        thumb == THUMB_ACTIVATED(d.s) = 1
        passed == thumb \/ evalCond(d.s, Bits(f.v, 28, 4))
        report(s0, s1) ==
            [s |-> s1, cycles |-> s1.cpu.cycle - s0.cpu.cycle, addr |-> addr,
             instr |-> f.v, type |-> d.type, thumb |-> thumb, passed |-> passed]
    IN  report(d.s,
               IF d.type = "NONE" THEN d.s
               ELSE IF thumb THEN thumbDispatch(d.s, d.type, f.v)
               ELSE IF passed THEN armDispatch(d.s, d.type, f.v)
               ELSE AddCycles(d.s, 1))

(* ---------------------------------------------------------------------- *)
(* Inputs: the ROM file (loadRom) and the BIOS file (loadBios), as the     *)
(* sequence of their words                                                 *)
(* ---------------------------------------------------------------------- *)
(* MOV r0,#0x04000000; ADD r2,r0,#0x200; MOV r1,#0x10; STRH r1,[r0,#4];
   MOV r1,#3; STRH r1,[r2]; MOV r1,#1; STRH r1,[r2,#8]; B . *)
RomIrqPending ==
    <<<<58272, 769>>, <<57984, 11266>>, <<58272, 4112>>, <<57792, 4276>>,
      <<58272, 4099>>, <<57794, 4272>>, <<58272, 4097>>, <<57794, 4280>>,
      <<60159, 65534>>>>

(* H-Blank IRQ enabled in DISPSTAT, r14 = 0x55, poll IF (LDRH; CMP; BEQ),
   then MOV r1,#3; STRH r1,[r2] (IE); MOV r5,#1; B . *)
RomIrqEnter ==
    <<<<58272, 769>>, <<57984, 11266>>, <<58272, 4112>>, <<57792, 4276>>,
      <<58272, 57429>>, <<57810, 16562>>, <<58196, 0>>, <<2815, 65532>>,
      <<58272, 4099>>, <<57794, 4272>>, <<58272, 20481>>, <<60159, 65534>>>>

(* H-Blank IRQ enabled, IME = 1, poll IF, then MOV r1,#2; STRH r1,[r2] (IE);
   MOV r5,#1; B . *)
RomIrqMasked ==
    <<<<58272, 769>>, <<57984, 11266>>, <<58272, 4112>>, <<57792, 4276>>,
      <<58272, 4097>>, <<57794, 4280>>, <<57810, 16562>>, <<58196, 0>>,
      <<2815, 65532>>, <<58272, 4098>>, <<57794, 4272>>, <<58272, 20481>>,
      <<60159, 65534>>>>

(* MOVS r0,#0; MOV r14,#0x55; SWI 0; MOV r5,#1; B . *)
RomSwi ==
    <<<<58288, 0>>, <<58272, 57429>>, <<61184, 0>>, <<58272, 20481>>,
      <<60159, 65534>>>>

(* ADD r0,pc,#1; BX r0; Thumb: SWI 0; B . *)
RomThumbSwi ==
    <<<<57999, 1>>, <<57647, 65296>>, <<59390, 57088>>>>

(* ADD r0,pc,#1; BX r0; Thumb: MOV r1,#5; CMP r1,#5; BEQ; MOV r8,r1; B . *)
RomThumb ==
    <<<<57999, 1>>, <<57647, 65296>>, <<10501, 8453>>, <<18056, 53503>>,
      <<0, 59390>>>>

(* MOV r0,#0x04000000; MOVS r1,#1; MOVEQ r2,#5; BEQ; STREQ r1,[r0,#0x200];
   MSREQ CPSR_fc,r1; CDPEQ; MOV r5,#1; B . *)
RomCondFail ==
    <<<<58272, 769>>, <<58288, 4097>>, <<928, 8197>>, <<2560, 11>>,
      <<1408, 4608>>, <<297, 61441>>, <<3584, 0>>, <<58272, 20481>>,
      <<60159, 65534>>>>

(* MOV r0,#0x04000000; ADD r3,r0,#0x300; MOV r1,#0; STRB r1,[r3,#1] (HALTCNT);
   MOV r5,#1; MOV r5,#2; B . *)
RomHalt ==
    <<<<58272, 769>>, <<57984, 15363>>, <<58272, 4096>>, <<58819, 4097>>,
      <<58272, 20481>>, <<58272, 20482>>, <<60159, 65534>>>>

(* timer 0: reload 0xFFF0, control 0xC0; MOV r7,#0x03000000; STR r1,[r7];
   LDR r8,[r7]; MRS r9,CPSR; B . *)
RomTimer ==
    <<<<58272, 769>>, <<57984, 27649>>, <<58336, 4111>>, <<57798, 4272>>,
      <<58272, 4288>>, <<57798, 4274>>, <<58272, 29699>>, <<58759, 4096>>,
      <<58775, 32768>>, <<57615, 36864>>, <<60159, 65534>>>>

(* 0x00 B .; 0x04 B .; 0x08 MOVS pc,lr; 0x0C..0x14 B .; 0x18 B 0x20; 0x1C B .;
   0x20 MOV r13,#0x100; 0x24 MOVS pc,lr *)
BiosHandlers ==
    <<<<60159, 65534>>, <<60159, 65534>>, <<57776, 61454>>, <<60159, 65534>>,
      <<60159, 65534>>, <<60159, 65534>>, <<59904, 0>>, <<60159, 65534>>,
      <<58272, 56321>>, <<57776, 61454>>>>

(* a BIOS file with no content: mem->bios keeps the zeros of main's memset *)
BiosEmpty == <<>>

Programs ==
    {[name |-> "irqPending", rom |-> RomIrqPending, bios |-> BiosHandlers],
     [name |-> "irqEnter", rom |-> RomIrqEnter, bios |-> BiosHandlers],
     [name |-> "irqEnterEmptyBios", rom |-> RomIrqEnter, bios |-> BiosEmpty],
     [name |-> "irqMasked", rom |-> RomIrqMasked, bios |-> BiosHandlers],
     [name |-> "swi", rom |-> RomSwi, bios |-> BiosHandlers],
     [name |-> "thumbSwi", rom |-> RomThumbSwi, bios |-> BiosHandlers],
     [name |-> "thumb", rom |-> RomThumb, bios |-> BiosHandlers],
     (* MOV r0,#0x03000000; MOV r1,r0; ADD r4,pc,#1; BX r4; Thumb:
        STMIA r0!,{r4}; LDMIA r1!,{r5}; STMIA r0!,{}; B . *)
     [name |-> "emptyList",
      rom |-> <<<<58272, 1027>>, <<57760, 4096>>, <<57999, 16385>>, <<57647, 65300>>,
                <<51488, 49168>>, <<59390, 49152>>>>,
      bios |-> BiosHandlers],
     (* MOV r1,#1; ANDEQ r0,r0,r0 (0x00000000); MOV r2,#2; MOV r3,#3; B . *)
     [name |-> "zeroOpcode",
      rom |-> <<<<58272, 4097>>, <<0, 0>>, <<58272, 8194>>, <<58272, 12291>>,
                <<60159, 65534>>>>,
      bios |-> BiosHandlers],
     (* ADD r0,pc,#1; BX r0; Thumb: MOV r1,#5; SWI 0 (at 0x0800000A); B . *)
     [name |-> "thumbSwiOdd",
      rom |-> <<<<57999, 1>>, <<57647, 65296>>, <<57088, 8453>>, <<0, 59390>>>>,
      bios |-> BiosHandlers],
     [name |-> "condFail", rom |-> RomCondFail, bios |-> BiosHandlers],
     [name |-> "halt", rom |-> RomHalt, bios |-> BiosHandlers],
     [name |-> "timer", rom |-> RomTimer, bios |-> BiosHandlers],
     (* MOV r0,#0x04000000; ADD r2,r0,#0x200; MOV r1,#0x138; MOV r3,#7;
        loop: STRH r3,[r2,#2] (IF); STRH r1,[r0,#4] (DISPSTAT); B loop *)
     [name |-> "dispstat",
      rom |-> <<<<58272, 769>>, <<57984, 11266>>, <<58272, 8014>>, <<58272, 12295>>,
                <<57794, 12466>>, <<57792, 4276>>, <<60159, 65532>>>>,
      bios |-> BiosHandlers],
     (* MOV r0,#0; MOV r2,#0x80000001; MOVS r3,r2,LSL r0; MOVS r3,r2,LSR r0;
        MOVS r3,r2,ASR r0; MOVS r3,r2,ROR r0; CMP r0,#0; MOVS r3,r2,LSL r0;
        ADD r4,pc,#1; BX r4; Thumb: CMP r0,#1; LSL r2,r0; CMP r0,#1; LSR r2,r0;
        CMP r0,#1; ASR r2,r0; CMP r0,#1; ROR r2,r0; B . *)
     [name |-> "shiftByZero",
      rom |-> <<<<58272, 0>>, <<58272, 8454>>, <<57776, 12306>>, <<57776, 12338>>,
                <<57776, 12370>>, <<57776, 12402>>, <<58192, 0>>, <<57776, 12306>>,
                <<57999, 16385>>, <<57647, 65300>>, <<16514, 10241>>, <<16578, 10241>>,
                <<16642, 10241>>, <<16834, 10241>>, <<0, 59390>>>>,
      bios |-> BiosHandlers],
     (* MOV r0,#0x13; MSR CPSR_fc,r0 (supervisor mode); MOVS r1,#0;
        MOVEQ r2,#5; MOVNE r3,#7; MOVS r1,#0x80000000; B . *)
     [name |-> "privFlags",
      rom |-> <<<<58272, 19>>, <<57641, 61440>>, <<58288, 4096>>, <<928, 8197>>,
                <<5024, 12295>>, <<58288, 4226>>, <<60159, 65534>>>>,
      bios |-> BiosHandlers]}

(* fread of the file into mem->rom / mem->bios: word i of the file at      *)
(* byte offset 4 * i                                                       *)
Image(ws) == [o \in {4 * (i - 1) : i \in 1..Len(ws)} |-> ws[(o \div 4) + 1]]

(* ---------------------------------------------------------------------- *)
(* ppu.c: scanline timing                                                  *)
(* ---------------------------------------------------------------------- *)
FRAME_HEIGHT == 160

TOTAL_HEIGHT == 228

CYCLES_PER_SCANLINE == 1232

CYCLES_PER_HDRAW == 1006

(* vblankStart without the statement that sets the V-Blank flag *)
vblankStartRequestOnly(s) ==
    IF (s.mem.dispstat \div 8) % 2 = 1 THEN triggerIRQ(s, 1) ELSE s

vblankStart(s) ==
    LET s1 == IF (s.mem.dispstat \div 8) % 2 = 1 THEN triggerIRQ(s, 1) ELSE s
    IN  [s1 EXCEPT !.mem.dispstat = Or16(@, 1)]

hblankStart(s) ==
    LET s1 == IF (s.mem.dispstat \div 16) % 2 = 1 THEN triggerIRQ(s, 2) ELSE s
    IN  [s1 EXCEPT !.mem.dispstat = Or16(@, 2)]

vcountMatch(s) ==
    LET s1 == IF (s.mem.dispstat \div 32) % 2 = 1 THEN triggerIRQ(s, 4) ELSE s
    IN  [s1 EXCEPT !.mem.dispstat = Or16(@, 4)]

(* ---------------------------------------------------------------------- *)
(* Bounds of the model                                                     *)
(* ---------------------------------------------------------------------- *)
(* scanlines of the frame that are explored *)
MaxLines == 2

(* register writes and updateTimer calls explored by the timer machine *)
MaxTimerOps == 5

(* ---------------------------------------------------------------------- *)
(* Initial state: main's memset of both cores, then startGBA               *)
(* ---------------------------------------------------------------------- *)
InitCpu ==
    [regs |-> [r \in 0..15 |-> CASE r = 13 -> <<768, 32512>>
                                 [] r = 15 -> <<2048, 0>>
                                 [] OTHER -> WZero],
     regsFIQ |-> [i \in 0..6 |-> WZero],
     regsSVC |-> [i \in 0..1 |-> IF i = 0 THEN <<768, 32736>> ELSE WZero],
     regsABT |-> [i \in 0..1 |-> WZero],
     regsIRQ |-> [i \in 0..1 |-> IF i = 0 THEN <<768, 32672>> ELSE WZero],
     regsUND |-> [i \in 0..1 |-> WZero],
     cpsr |-> <<0, SYSTEM>>,
     spsr_fiq |-> WZero, spsr_svc |-> WZero, spsr_abt |-> WZero,
     spsr_irq |-> WZero, spsr_und |-> WZero,
     carry |-> 0, pipeline |-> WZero, cycle |-> 0]

InitMem(rom, bios) ==
    [bios |-> Image(bios), rom |-> Image(rom),
     iWRAM |-> Image(<<>>), eWRAM |-> Image(<<>>),
     palRAM |-> Image(<<>>), palette |-> Image(<<>>), vram |-> Image(<<>>),
     oam |-> Image(<<>>),
     biosBus |-> <<57641, 61440>>,
     ie |-> 0, i_f |-> 0, ime |-> 0, powerDown |-> FALSE, postflag |-> 1,
     dispstat |-> 0, vcount |-> 0, dispcnt |-> 0,
     (* index 0 is BG2, index 1 is BG3 *)
     bgpb |-> [k \in 0..1 |-> 0], bgpc |-> [k \in 0..1 |-> 0],
     bgpd |-> [k \in 0..1 |-> 0],
     bgx |-> [k \in 0..1 |-> WZero], bgy |-> [k \in 0..1 |-> WZero],
     internalPX |-> [k \in 0..1 |-> WZero], internalPY |-> [k \in 0..1 |-> WZero],
     (* the four bytes between internalPY and biosBus: the flag and its padding *)
     reloadAffine |-> WZero,
     timers |-> [t \in 0..3 |-> [counter |-> 0, reload |-> 0, control |-> 0]],
     soundcnt_h |-> 0, fifoClocks |-> 0,
     dma |-> [c \in 0..3 |-> [source |-> WZero, destination |-> WZero,
                              count |-> 0, control |-> 0]],
     dmaSrc |-> [c \in 0..3 |-> WZero], dmaDest |-> [c \in 0..3 |-> WZero],
     dmaCount |-> [c \in 0..3 |-> WZero], eepromIdx |-> 0,
     (* the cells kept of sram[0x10000] and flash[0x20000], zeroed by startGBA *)
     sram |-> [a \in {0, 4096, 10922, 21845} |-> 0],
     flash |-> [a \in {b + o : b \in {0, 65536}, o \in {0, 4096, 10922, 21845}} |-> 0],
     flashBank |-> 0, modeFlash |-> "IDLE", modeIdFlash |-> FALSE, usedFlash |-> FALSE]

Idle(op) ==
    [op |-> op, ev |-> <<>>, chk |-> <<>>, pre |-> cpu, memSame |-> TRUE,
     instr |-> WZero, addr |-> WZero, type |-> "NONE", thumb |-> FALSE, passed |-> FALSE,
     cycles |-> 0, pend |-> <<>>, atPend |-> WZero, halted |-> FALSE, ret |-> <<>>,
     before |-> <<>>]

Init ==
    /\ prog \in {p.name : p \in Programs}
    /\ cpu = InitCpu
    /\ \E p \in Programs : p.name = prog /\ mem = InitMem(p.rom, p.bios)
    /\ timerTemps = [t \in 0..3 |-> 0]
    /\ timerENB = 0
    /\ exited = 0
    /\ sched = [phase |-> "frame", total |-> 0, lines |-> 0, locked |-> FALSE]
    /\ last = [op |-> "init", ev |-> <<>>, chk |-> <<>>, pre |-> InitCpu, memSame |-> TRUE,
               instr |-> WZero, addr |-> WZero, type |-> "NONE", thumb |-> FALSE,
               passed |-> FALSE, cycles |-> 0, pend |-> <<>>, atPend |-> WZero,
               halted |-> FALSE, ret |-> <<>>, before |-> <<>>]
    /\ timerObs = NoObs
    /\ dmaObs = [trace |-> <<>>, runs |-> <<>>, bg |-> <<>>]
    /\ hist = [frames |-> <<>>, halted |-> FALSE, pend |-> <<>>, lineCycles |-> 0]

(* ---------------------------------------------------------------------- *)
(* Steps                                                                   *)
(* ---------------------------------------------------------------------- *)
Commit(s) ==
    /\ cpu' = s.cpu
    /\ mem' = s.mem
    /\ timerTemps' = s.tt
    /\ timerENB' = s.enb
    /\ exited' = s.exit
    /\ dmaObs' = [trace |-> s.trace, runs |-> s.runs, bg |-> s.bg]

(* the registers memWriteIO, the RAM writes and the PPU can change *)
Writable(m) == [f \in DOMAIN m \ {"rom", "bios"} |-> m[f]]

ModeOf(c) == c.cpsr[2] % 32

(* register regId as mode `mode` sees it in the register file c *)
RegIn(c, mode, regId) ==
    getReg([cpu |-> [c EXCEPT !.cpsr = <<@[1], (@[2] - (@[2] % 32)) + mode>>]], regId)

(* what is remembered of an exception entry e until the handler returns *)
Frame(e) ==
    [kind |-> e.kind, mode |-> e.mode, from |-> ModeOf(e.before), cpsr |-> e.before.cpsr,
     spsrWritten |-> FALSE,
     r13 |-> RegIn(e.before, ModeOf(e.before), 13),
     r14 |-> RegIn(e.before, ModeOf(e.before), 14),
     r15 |-> e.before.regs[15]]

(* a data-processing instruction with S set and destination r15, executed  *)
(* in a privileged mode: the return from a handler                         *)
IsReturn(r) ==
    /\ ~r.thumb /\ r.passed /\ r.type = "DPROC"
    /\ Bits(r.instr, 20, 1) = 1 /\ Bits(r.instr, 12, 4) = 15
    /\ ModeOf(cpu) \notin {USER, SYSTEM}

(* MSR SPSR executed: an explicit write of the SPSR *)
WritesSpsr(r) ==
    ~r.thumb /\ r.passed /\ r.type = "PSRT"
    /\ Bits(r.instr, 21, 1) = 1 /\ Bits(r.instr, 22, 1) = 1

(* the frames with the innermost one marked when the handler wrote its SPSR *)
Marked(frames, r) ==
    IF WritesSpsr(r) /\ frames # <<>>
    THEN [frames EXCEPT ![Len(frames)].spsrWritten = TRUE]
    ELSE frames

(* the opcode stored at the address of a pending r15 write *)
StoredAt(pend) ==
    IF pend = <<>> THEN WZero
    ELSE fetchInstruction([Machine EXCEPT !.cpu.regs[15] = pend[1]]).v

(* the interrupt request that ends a halt: (IE AND IF) non-zero *)
Requested(m) == And16(m.ie, m.i_f) # 0

(* one iteration of the loop of executeInput *)
Execute ==
    /\ exited = 0
    /\ \/ sched.phase = "hdraw" /\ sched.total < CYCLES_PER_HDRAW
       \/ sched.phase = "hblank" /\ sched.total < CYCLES_PER_SCANLINE - CYCLES_PER_HDRAW
    /\ LET record(r, tm, returns) ==
               /\ Commit(tm.s)
               /\ timerObs' = tm.obs
               /\ sched' = [sched EXCEPT !.total = @ + r.cycles]
               /\ last' = [op |-> "execute", ev |-> r.s.ev, chk |-> r.s.chk, pre |-> cpu,
                           memSame |-> Writable(r.s.mem) = Writable(mem),
                           instr |-> r.instr, addr |-> r.addr, type |-> r.type,
                           thumb |-> r.thumb, passed |-> r.passed, cycles |-> r.cycles,
                           pend |-> hist.pend, atPend |-> StoredAt(hist.pend),
                           halted |-> hist.halted,
                           ret |-> IF returns THEN <<hist.frames[Len(hist.frames)]>>
                                   ELSE <<>>,
                           before |-> <<>>]
               /\ hist' = [frames |-> (IF returns
                                       THEN SubSeq(hist.frames, 1, Len(hist.frames) - 1)
                                       ELSE Marked(hist.frames, r))
                                      \o [i \in 1..Len(r.s.ev) |-> Frame(r.s.ev[i])],
                           halted |-> (hist.halted \/ (tm.s.mem.powerDown /\ ~mem.powerDown))
                                      /\ ~Requested(tm.s.mem),
                           pend |-> IF r.s.pcw = <<>> THEN <<>>
                                    ELSE <<r.s.pcw[Len(r.s.pcw)]>>,
                           lineCycles |-> hist.lineCycles + r.cycles]
           (* if (timerENB) updateTimer(cyclesPassed) *)
           timed(r) ==
               record(r,
                      IF r.s.exit = 0 /\ r.s.enb # 0
                      THEN updateTimerRun(r.s, 0, FALSE, r.cycles, NoObs)
                      ELSE [s |-> r.s, obs |-> NoObs],
                      IsReturn(r) /\ hist.frames # <<>>)
       IN  timed(execute(Machine))
    /\ UNCHANGED prog

(* the rendering of scanline vcount into its row of the frame buffer; the  *)
(* pixels are not modelled, the row written is appended to the trace       *)
(* renderBG in the modes 0, 1 and 2: the reference point of each enabled   *)
(* affine background and its advance by PB and PD.  All backgrounds have   *)
(* priority 0 (no BGxCNT is written), so they are drawn in the order 3, 2, *)
(* 1, 0.  internalPX, internalPY, bgpb and bgpd have two elements and are  *)
(* indexed by bgIdx: for bgIdx 2 and 3 the accesses are out of bounds.     *)
(* ub = <<>>: they fall on the members that follow in the structures       *)
(* (internalPX[2..3] on internalPY[0..1], internalPY[2] on reloadAffine,   *)
(* internalPY[3] on biosBus, bgpb[2..3] on bgpc[0..1], bgpd[2..3] on the   *)
(* halves of bgx[0]); ub = <<w>>: the reads give w and the stores are not  *)
(* seen by the program.                                                    *)
renderBG(s, ub) ==
    LET mode == s.mem.dispcnt % 8
        sx(h) == IF h >= 32768 THEN <<65535, h>> ELSE <<0, h>>
        draw(s1, bgIdx, ox, oy) ==
            [s1 EXCEPT !.bg = Append(@, [ch |-> bgIdx, x |-> ox, y |-> oy])]
        inside(s1, bgIdx) ==
            [draw(s1, bgIdx, s1.mem.internalPX[bgIdx], s1.mem.internalPY[bgIdx])
                EXCEPT !.mem.internalPX[bgIdx] = WAdd(@, sx(s1.mem.bgpb[bgIdx])),
                       !.mem.internalPY[bgIdx] = WAdd(@, sx(s1.mem.bgpd[bgIdx]))]
        outside(s1, bgIdx) ==
            CASE ub # <<>> -> draw(s1, bgIdx, ub[1], ub[1])
              [] ub = <<>> /\ bgIdx = 2 ->
                    [draw(s1, 2, s1.mem.internalPY[0], s1.mem.reloadAffine)
                        EXCEPT !.mem.internalPY[0] = WAdd(@, sx(s1.mem.bgpc[0])),
                               !.mem.reloadAffine = WAdd(@, sx(s1.mem.bgx[0][2]))]
              [] ub = <<>> /\ bgIdx = 3 ->
                    [draw(s1, 3, s1.mem.internalPY[1], s1.mem.biosBus)
                        EXCEPT !.mem.internalPY[1] = WAdd(@, sx(s1.mem.bgpc[1])),
                               !.mem.biosBus = WAdd(@, sx(s1.mem.bgx[0][1]))]
        layer(s1, bgIdx) ==
            IF (s1.mem.dispcnt \div (256 * 2 ^ bgIdx)) % 2 = 1
               /\ (mode = 2 \/ (mode = 1 /\ bgIdx = 2))
            THEN (IF bgIdx < 2 THEN inside(s1, bgIdx) ELSE outside(s1, bgIdx))
            ELSE s1
    IN  IF mode > 2 THEN s ELSE layer(layer(layer(layer(s, 3), 2), 1), 0)

renderScanline(s, ub) ==
    renderBG([s EXCEPT !.trace = Append(@, [kind |-> "render", ch |-> s.mem.vcount,
                                            src |-> WZero, dest |-> WZero,
                                            stat |-> s.mem.dispstat, irq |-> s.mem.i_f])],
             ub)

(* a step of tickPPU outside executeInput: s is the state it leaves;       *)
(* lines counts the scanlines begun, lineCycles the cycles the CPU has run *)
(* since vcount took its value                                             *)
PpuStep(op, s, phase) ==
    /\ Commit(s)
    /\ sched' = [phase |-> phase, total |-> 0,
                 lines |-> sched.lines + (IF op = "lineStart" THEN 1 ELSE 0),
                 (* SDL_LockTexture before the loop, SDL_UnlockTexture after it *)
                 locked |-> CASE op = "frameStart" -> TRUE
                              [] op = "lineEnd" /\ phase = "frame" -> FALSE
                              [] OTHER -> sched.locked]
    /\ last' = Idle(op)
    /\ hist' = [hist EXCEPT !.halted = @ /\ ~Requested(s.mem),
                            !.lineCycles = IF op \in {"frameStart", "lineEnd"} THEN 0 ELSE @]
    /\ UNCHANGED <<prog, timerObs>>

(* tickPPU up to the first test of the scanline loop *)
FrameStart ==
    /\ exited = 0
    /\ sched.phase = "frame"
    /\ PpuStep("frameStart",
               [Machine EXCEPT !.mem.dispstat = And16(@, 65535 - 1), !.mem.vcount = 0],
               "line")

(* head of the loop body, up to the call executeInput(1006) *)
LineStart ==
    /\ exited = 0
    /\ sched.phase = "line"
    /\ mem.vcount < TOTAL_HEIGHT
    /\ sched.lines < MaxLines
    /\ LET vblank(s2) == IF s2.mem.vcount = FRAME_HEIGHT
                         THEN dmaTransfer(
                                  vblankStart([s2 EXCEPT !.mem.internalPX = s2.mem.bgx,
                                                         !.mem.internalPY = s2.mem.bgy]),
                                  VBLANK)
                         ELSE s2
           match(s1) == vblank(IF s1.mem.vcount = s1.mem.dispstat \div 256
                               THEN vcountMatch(s1) ELSE s1)
       IN  PpuStep("lineStart",
                   match([Machine EXCEPT !.mem.dispstat = And16(@, 65535 - 6)]), "hdraw")

(* HBlankStart with the H-blank DMAs run on scanline 160 too *)
HBlankStartOnLine160 ==
    /\ exited = 0
    /\ sched.phase = "hdraw"
    /\ sched.total >= CYCLES_PER_HDRAW
    /\ \E ub \in {<<>>, <<WZero>>, <<<<4095, 65535>>>>} :
          PpuStep("hblankStart",
                  hblankStart(IF mem.vcount <= FRAME_HEIGHT
                              THEN dmaTransfer(renderScanline(Machine, ub), HBLANK)
                              ELSE Machine),
                  "hblank")

(* HBlankStart with the flag set and the request raised before the line is rendered *)
HBlankStartFlagFirst ==
    /\ exited = 0
    /\ sched.phase = "hdraw"
    /\ sched.total >= CYCLES_PER_HDRAW
    /\ \E ub \in {<<>>, <<WZero>>, <<<<4095, 65535>>>>} :
          PpuStep("hblankStart",
                  IF mem.vcount < FRAME_HEIGHT
                  THEN dmaTransfer(renderScanline(hblankStart(Machine), ub), HBLANK)
                  ELSE hblankStart(Machine),
                  "hblank")

(* after executeInput(1006): renderScanline and dmaTransfer(HBLANK) on the *)
(* visible lines, hblankStart, up to executeInput(1232 - 1006); ub is the  *)
(* outcome of the out-of-bounds accesses of renderBG                       *)
HBlankStart ==
    /\ exited = 0
    /\ sched.phase = "hdraw"
    /\ sched.total >= CYCLES_PER_HDRAW
    /\ \E ub \in {<<>>, <<WZero>>, <<<<4095, 65535>>>>} :
          PpuStep("hblankStart",
                  hblankStart(IF mem.vcount < FRAME_HEIGHT
                              THEN dmaTransfer(renderScanline(Machine, ub), HBLANK)
                              ELSE Machine),
                  "hblank")

(* after executeInput(1232 - 1006): end of the loop body, vcount++ *)
LineEnd ==
    /\ exited = 0
    /\ sched.phase = "hblank"
    /\ sched.total >= CYCLES_PER_SCANLINE - CYCLES_PER_HDRAW
    /\ PpuStep("lineEnd", [Machine EXCEPT !.mem.vcount = @ + 1],
               IF mem.vcount + 1 < TOTAL_HEIGHT THEN "line" ELSE "frame")

Next == Execute \/ FrameStart \/ LineStart \/ HBlankStart \/ LineEnd

Spec == Init /\ [][Next]_vars

(* ---------------------------------------------------------------------- *)
(* tickPPU with DMA channels programmed: the head of the scanline loop at  *)
(* scanline `start`, after the program has stored to the registers of two  *)
(* DMA channels and to DISPSTAT and has reached its idle loop (B .); the   *)
(* flags of DISPSTAT are the ones the scanlines before `start` left        *)
(* ---------------------------------------------------------------------- *)
InitFrame ==
    /\ cpu = InitCpu
    /\ LET (* the idle loop B . ; or the loop MOV r0,#0x04000000; MOV r1,#7;  *)
           (* STRH r1,[r0,#4] (DISPSTAT); MOV r1,#0; STRH r1,[r0,#4]; B loop  *)
           roms == <<<<<<60159, 65534>>>>,
                     <<<<58272, 769>>, <<58272, 4103>>, <<57792, 4276>>, <<58272, 4096>>,
                       <<57792, 4276>>, <<60159, 65529>>>>>>
           reset(c) == [cpu |-> InitCpu, mem |-> InitMem(roms[c[5]], <<>>),
                        tt |-> [t \in 0..3 |-> 0], enb |-> 0, exit |-> 0,
                        ev |-> <<>>, chk |-> <<>>, pcw |-> <<>>, trace |-> <<>>, runs |-> <<>>, bg |-> <<>>]
           (* the stores to SAD, DAD and CNT_L of channel c[1], then the   *)
           (* store of the control c[2] to CNT_H                           *)
           base(c) == 176 + 12 * c[1]
           registers(s, c) ==
               memWriteHalfWord(
                   memWriteWord(
                       memWriteWord(s, <<1024, base(c)>>, <<2048, 0>>),
                       <<1024, base(c) + 4>>, <<768, 16 * c[1]>>),
                   <<1024, base(c) + 8>>, 2)
           control(s, c) == memWriteHalfWord(s, <<1024, base(c) + 10>>, c[2])
           (* H-blank repeat with IRQ, V-blank repeat 32-bit; V-blank and  *)
           (* H-blank without repeat; immediate with repeat, H-blank       *)
           (* repeat with IRQ; no channel enabled; the third component is  *)
           (* the value stored to DISPSTAT, the fourth the value stored to *)
           (* DISPCNT: 0, or mode 2 with BG2 and BG3, or mode 1 with BG2;  *)
           (* the fifth is the ROM loaded                                  *)
           setups == {<<<<0, 57856>>, <<3, 38400>>, 24, 0, 1>>,
                      <<<<1, 36864>>, <<2, 40960>>, 0, 0, 1>>,
                      <<<<2, 33280>>, <<3, 57856>>, 24, 0, 1>>,
                      <<<<0, 0>>, <<1, 0>>, 0, 0, 1>>,
                      <<<<0, 0>>, <<1, 0>>, 0, 3074, 1>>,
                      <<<<0, 0>>, <<1, 0>>, 0, 1025, 1>>,
                      <<<<0, 0>>, <<1, 0>>, 0, 0, 2>>}
           (* the stores to PA/PB, PC/PD, X and Y of background 2 + k *)
           matrix(s, k) ==
               memWriteWord(memWriteWord(s, <<1024, 32 + 16 * k>>, <<1 + 2 * k, 256>>),
                            <<1024, 36 + 16 * k>>, <<2 + 2 * k, 16 + 16 * k>>)
           point(s, k) ==
               memWriteWord(memWriteWord(s, <<1024, 40 + 16 * k>>, <<0, 256 + 512 * k>>),
                            <<1024, 44 + 16 * k>>, <<0, 512 + 512 * k>>)
           flags(start) == (IF start > FRAME_HEIGHT THEN 1 ELSE 0)
                           + (IF start > 0 THEN 2 ELSE 0)
       IN  \E c \in setups :
           \E s1 \in {registers(reset(c), c[1])} :
           \E s2 \in {control(s1, c[1])} :
           \E s3 \in {registers(s2, c[2])} :
           \E s4 \in {control(s3, c[2])} :
           \E s5 \in {memWriteHalfWord(s4, <<1024, 4>>, c[3])} :
           \E s6 \in {IF c[4] = 0 THEN s5 ELSE matrix(s5, 0)} :
           \E s7 \in {IF c[4] = 0 THEN s6 ELSE point(s6, 0)} :
           \E s8 \in {IF c[4] = 0 THEN s7 ELSE matrix(s7, 1)} :
           \E s9 \in {IF c[4] = 0 THEN s8 ELSE point(s8, 1)} :
           \E s10 \in {memWriteHalfWord(s9, <<1024, 0>>, c[4])} :
           \E start \in {0, FRAME_HEIGHT - 1, TOTAL_HEIGHT - 1} :
              /\ prog = CASE c[5] = 2 -> "dispstatFrame"
                           [] c[4] = 0 -> "dmaFrame"
                           [] OTHER -> "affineFrame"
              /\ mem = [s10.mem EXCEPT !.vcount = start,
                                       !.dispstat = Or16(@, flags(start))]
    /\ timerTemps = [t \in 0..3 |-> 0]
    /\ timerENB = 0
    /\ exited = 0
    /\ sched = [phase |-> "line", total |-> 0, lines |-> 0, locked |-> TRUE]
    /\ last = Idle("init")
    /\ timerObs = NoObs
    /\ dmaObs = [trace |-> <<>>, runs |-> <<>>, bg |-> <<>>]
    /\ hist = [frames |-> <<>>, halted |-> FALSE, pend |-> <<>>, lineCycles |-> 0]

SpecFrame == InitFrame /\ [][Next]_vars

(* ---------------------------------------------------------------------- *)
(* The timer registers on their own: writes of TM0CNT / TM1CNT bytes and   *)
(* the call updateTimer(cyclesPassed) of executeInput                      *)
(* ---------------------------------------------------------------------- *)
(* offsets of TM0CNT_L, TM0CNT_L+1, TM0CNT_H, TM1CNT_L, TM1CNT_L+1, TM1CNT_H *)
TimerAddrs == {256, 257, 258, 260, 261, 262}

(* 0xFE, 0xFF: reload bytes; 0xC0: enable + IRQ; 0xC4: enable + IRQ + cascade *)
TimerBytes == {254, 255, 192, 196}

(* cycle counts execute returns: 1 (MOV), 3 (branch) *)
TickCycles == {1, 3}

InitTimer ==
    /\ prog = "timerRegisters"
    /\ cpu = InitCpu
    /\ mem = InitMem(<<>>, <<>>)
    /\ timerTemps = [t \in 0..3 |-> 0]
    /\ timerENB = 0
    /\ exited = 0
    /\ sched = [phase |-> "timer", total |-> 0, lines |-> 0, locked |-> FALSE]
    /\ last = [op |-> "init", ev |-> <<>>, chk |-> <<>>, pre |-> InitCpu, memSame |-> TRUE,
               instr |-> WZero, addr |-> WZero, type |-> "NONE", thumb |-> FALSE,
               passed |-> FALSE, cycles |-> 0, pend |-> <<>>, atPend |-> WZero,
               halted |-> FALSE, ret |-> <<>>, before |-> <<>>]
    /\ timerObs = NoObs
    /\ dmaObs = [trace |-> <<>>, runs |-> <<>>, bg |-> <<>>]
    /\ hist = [frames |-> <<>>, halted |-> FALSE, pend |-> <<>>, lineCycles |-> 0]

(* memWriteByte of one byte of a timer register *)
TimerWrite ==
    /\ sched.phase = "timer"
    /\ sched.total < MaxTimerOps
    /\ \E a \in TimerAddrs, b \in TimerBytes :
          Commit(memWriteByte(Machine, <<1024, a>>, b))
    /\ sched' = [sched EXCEPT !.total = @ + 1]
    /\ last' = Idle("timerWrite")
    /\ timerObs' = NoObs
    /\ UNCHANGED <<prog, hist>>

(* if (timerENB) updateTimer(cyclesPassed) *)
TimerTick ==
    /\ sched.phase = "timer"
    /\ sched.total < MaxTimerOps
    /\ timerENB # 0
    /\ \E c \in TickCycles :
          LET tm == updateTimerRun(Machine, 0, FALSE, c, NoObs)
          IN  Commit(tm.s) /\ timerObs' = tm.obs
    /\ sched' = [sched EXCEPT !.total = @ + 1]
    /\ last' = Idle("updateTimer")
    /\ UNCHANGED <<prog, hist>>

NextTimer == TimerWrite \/ TimerTick

SpecTimer == InitTimer /\ [][NextTimer]_vars

(* ---------------------------------------------------------------------- *)
(* The bus on its own: the writes a program makes to the DMA registers and *)
(* to the Flash backup region, and the DMA triggers of tickPPU             *)
(* ---------------------------------------------------------------------- *)
MaxBusOps == 5

(* program "flashBank" starts after the stores of a Bank-switch command,   *)
(* 0xAA, 0x55, 0xB0, made on the fresh Flash or after the byte 0x77 was    *)
(* written to 0x0E001000 of bank 0 by a Write command                      *)
InitBus ==
    /\ prog \in {"dmaRegisters", "flashCommands", "flashBank", "paletteWrites",
                 "vramWrites", "halfwords", "unmappedWrites", "dmaRepeat"}
    /\ cpu = InitCpu
    /\ LET reset == [cpu |-> InitCpu,
                     mem |-> InitMem(<<<<4369, 8738>>, <<13107, 17476>>,
                                       <<21845, 26214>>>>, <<>>),
                     tt |-> [t \in 0..3 |-> 0], enb |-> 0, exit |-> 0,
                     ev |-> <<>>, chk |-> <<>>, pcw |-> <<>>, trace |-> <<>>, runs |-> <<>>, bg |-> <<>>]
           w(s, offset, value) == memWriteByte(s, <<3584, offset>>, value)
           entry(a, v) == [addr |-> <<3584, a>>, value |-> v]
       IN  IF prog # "flashBank"
           THEN mem = reset.mem /\ last = Idle("init")
           ELSE \E data \in {0, 119} :
                \E s1 \in {w(reset, 21845, 170)} :
                \E s2 \in {w(s1, 10922, 85)} :
                \E s3 \in {IF data = 0 THEN s2 ELSE w(s2, 21845, 160)} :
                \E s4 \in {IF data = 0 THEN s3 ELSE w(s3, 4096, data)} :
                \E s5 \in {IF data = 0 THEN s4 ELSE w(s4, 21845, 170)} :
                \E s6 \in {w(s5, 21845, 176)} :
                   /\ mem = s6.mem
                   /\ last = [Idle("busWrite") EXCEPT
                                 !.type = "byte", !.addr = <<3584, 21845>>,
                                 !.instr = <<0, 176>>,
                                 !.before = IF data = 0
                                            THEN <<entry(21845, 170), entry(10922, 85)>>
                                            ELSE <<entry(4096, data), entry(21845, 170)>>]
    /\ timerTemps = [t \in 0..3 |-> 0]
    /\ timerENB = 0
    /\ exited = 0
    /\ sched = [phase |-> "bus", total |-> 0, lines |-> 0, locked |-> FALSE]
    /\ timerObs = NoObs
    /\ dmaObs = [trace |-> <<>>, runs |-> <<>>, bg |-> <<>>]
    /\ hist = [frames |-> <<>>, halted |-> FALSE, pend |-> <<>>, lineCycles |-> 0]

(* memWriteByte, memWriteHalfWord or memWriteWord of one register of DMA   *)
(* channel 0 or 3, memWriteByte to the Flash backup region, or a write to  *)
(* work RAM, palette RAM, VRAM or OAM                                      *)
BusWrite ==
    /\ sched.phase = "bus"
    /\ sched.total < MaxBusOps
    /\ LET (* DMA channel c: SAD, DAD (words), CNT_L (halfword), CNT_H (bytes) *)
           base(c) == 176 + 12 * c
           dmaWrites ==
               {<<"word", <<1024, base(0)>>, <<2048, 2>>>>,
                <<"word", <<1024, base(0) + 4>>, <<768, 6>>>>,
                <<"half", <<1024, base(0) + 8>>, <<0, 1>>>>,
                <<"half", <<1024, base(0) + 8>>, <<0, 2>>>>,
                <<"byte", <<1024, base(0) + 10>>, <<0, 96>>>>,
                <<"byte", <<1024, base(0) + 10>>, <<0, 160>>>>,
                <<"half", <<1024, base(3) + 8>>, <<0, 1>>>>}
               \cup {<<"byte", <<1024, base(0) + 11>>, <<0, v>>>> :
                         v \in {0, 128, 133, 146, 166, 208}}
               \cup {<<"byte", <<1024, base(3) + 11>>, <<0, v>>>> : v \in {128, 146, 166}}
           flashWrites ==
               {<<"byte", <<3584, 21845>>, <<0, v>>>> :
                     v \in {170, 160, 144, 240, 128, 16, 176}}
               \cup {<<"byte", <<3584, 10922>>, <<0, 85>>>>,
                     <<"byte", <<3584, 0>>, <<0, 1>>>>,
                     <<"byte", <<3584, 4096>>, <<0, 48>>>>,
                     <<"byte", <<3584, 4096>>, <<0, 119>>>>}
           bankWrites ==
               {<<"byte", <<3584, 21845>>, <<0, v>>>> : v \in {170, 160, 176}}
               \cup {<<"byte", <<3584, 0>>, <<0, v>>>> : v \in {1, 2}}
               \cup {<<"byte", <<3584, 10922>>, <<0, 85>>>>,
                     <<"byte", <<3584, 4096>>, <<0, 48>>>>}
           (* palette entries 0, 1 and 510, and the mirror of entry 1 *)
           paletteWrites ==
               {<<"half", <<1280, 0>>, <<0, 32767>>>>,
                <<"word", <<1280, 0>>, <<992, 31744>>>>,
                <<"byte", <<1280, 0>>, <<0, 31>>>>,
                <<"byte", <<1280, 1>>, <<0, 124>>>>,
                <<"byte", <<1280, 3>>, <<0, 85>>>>,
                <<"half", <<1280, 1026>>, <<0, 31>>>>,
                <<"word", <<1280, 1020>>, <<21140, 10570>>>>}
           (* VRAM below and above 0x06010000, and the mirror at 0x06018000 *)
           vramWrites ==
               {<<"half", <<1536, 0>>, <<0, 4660>>>>,
                <<"word", <<1536, 0>>, <<43981, 61185>>>>,
                <<"byte", <<1536, 0>>, <<0, 17>>>>,
                <<"byte", <<1536, 1>>, <<0, 34>>>>,
                <<"byte", <<1536, 3>>, <<0, 51>>>>,
                <<"byte", <<1537, 32767>>, <<0, 68>>>>,
                <<"byte", <<1537, 32770>>, <<0, 85>>>>}
           (* halfword stores to each RAM region and to one of its mirrors *)
           halfWrites ==
               {<<"half", <<512, 2>>, <<0, 4660>>>>,
                <<"half", <<516, 2>>, <<0, 17185>>>>,
                <<"half", <<512, 1>>, <<0, 21845>>>>,
                <<"half", <<768, 32770>>, <<0, 48879>>>>,
                <<"half", <<1280, 1026>>, <<0, 32767>>>>,
                <<"half", <<1537, 0>>, <<0, 4369>>>>,
                <<"half", <<1537, 32768>>, <<0, 8738>>>>,
                <<"half", <<1538, 2>>, <<0, 13107>>>>,
                <<"half", <<1792, 1026>>, <<0, 17476>>>>}
           (* channel 0 enabled with immediate timing and Repeat, channel 3 *)
           (* enabled with V-Blank or immediate timing                       *)
           repeatWrites ==
               {<<"word", <<1024, base(0)>>, <<2048, 0>>>>,
                <<"word", <<1024, base(0) + 4>>, <<768, 0>>>>,
                <<"half", <<1024, base(0) + 8>>, <<0, 1>>>>,
                <<"byte", <<1024, base(0) + 11>>, <<0, 130>>>>,
                <<"half", <<1024, base(3) + 8>>, <<0, 1>>>>,
                <<"byte", <<1024, base(3) + 11>>, <<0, 146>>>>,
                <<"byte", <<1024, base(3) + 11>>, <<0, 128>>>>}
           (* addresses whose top byte is 0x01, 0x10, 0x12, 0x13, 0x15, 0x24 *)
           (* (0x24000208: the offset of IME), 0x36 and 0x47                 *)
           unmappedWrites ==
               {<<"word", <<256, 0>>, <<4660, 22136>>>>,
                <<"half", <<4096, 0>>, <<0, 4660>>>>,
                <<"word", <<4608, 0>>, <<51966, 47806>>>>,
                <<"half", <<4864, 2>>, <<0, 4660>>>>,
                <<"byte", <<5376, 0>>, <<0, 31>>>>,
                <<"byte", <<9216, 520>>, <<0, 1>>>>,
                <<"byte", <<13824, 0>>, <<0, 17>>>>,
                <<"word", <<18176, 0>>, <<1, 2>>>>}
           write(w) ==
               /\ Commit(CASE w[1] = "word" -> memWriteWord(Machine, w[2], w[3])
                           [] w[1] = "half" -> memWriteHalfWord(Machine, w[2], w[3][2])
                           [] w[1] = "byte" -> memWriteByte(Machine, w[2], w[3][2]))
               (* before: the two writes that preceded this one, the latest last *)
               /\ last' = [Idle("busWrite") EXCEPT
                              !.type = w[1], !.addr = w[2], !.instr = w[3],
                              !.before = IF last.op # "busWrite"
                                            \/ prog \notin {"flashCommands", "flashBank"}
                                         THEN <<>>
                                         ELSE (IF last.before = <<>> THEN <<>>
                                               ELSE <<last.before[Len(last.before)]>>)
                                              \o <<[addr |-> last.addr,
                                                    value |-> last.instr[2]]>>]
       IN  \E w \in (CASE prog = "dmaRegisters" -> dmaWrites
                         [] prog = "flashCommands" -> flashWrites
                         [] prog = "flashBank" -> bankWrites
                         [] prog = "paletteWrites" -> paletteWrites
                         [] prog = "vramWrites" -> vramWrites
                         [] prog = "halfwords" -> halfWrites
                         [] prog = "unmappedWrites" -> unmappedWrites
                         [] prog = "dmaRepeat" -> repeatWrites) : write(w)
    /\ sched' = [sched EXCEPT !.total = @ + 1]
    /\ UNCHANGED <<prog, timerObs, hist>>

(* dmaTransfer(VBLANK) and dmaTransfer(HBLANK) as tickPPU calls them *)
DmaTrigger ==
    /\ sched.phase = "bus"
    /\ sched.total < MaxBusOps
    /\ prog = "dmaRegisters"
    /\ \E timing \in {VBLANK, HBLANK} :
          /\ Commit(dmaTransfer(Machine, timing))
          /\ last' = [Idle("dmaTransfer") EXCEPT !.cycles = timing]
    /\ sched' = [sched EXCEPT !.total = @ + 1]
    /\ UNCHANGED <<prog, timerObs, hist>>

NextBus == BusWrite \/ DmaTrigger

SpecBus == InitBus /\ [][NextBus]_vars

(* ---------------------------------------------------------------------- *)
(* The register banks on their own: cpuModeSet(mode), which saves r13 and  *)
(* r14 (r8..r14 for FIQ) of the current mode with regToBank and loads the  *)
(* ones of `mode` with bankToReg, called from a privileged mode and back   *)
(* ---------------------------------------------------------------------- *)
(* calls of cpuModeSet explored *)
MaxSwitches == 2

(* the CPU in a privileged mode with its own r13 and r14 live in regs and  *)
(* every bank slot holding a value of its own; last.before keeps this      *)
(* register file                                                           *)
InitBank ==
    /\ prog = "registerBanks"
    /\ \E m \in {FIQ, IRQ, SVC, ABT, UNDEF} :
       \E sp \in {<<768, 32000>>, <<768, 256>>} :
       \E lr \in {<<2048, 256>>, <<2048, 512 + IRQ>>} :
          cpu = [InitCpu EXCEPT
                    !.cpsr = <<0, m>>,
                    !.regs = [r \in 0..15 |-> CASE r = 13 -> sp
                                                [] r = 14 -> lr
                                                [] OTHER -> <<0, r>>],
                    !.regsFIQ = [i \in 0..6 |-> <<FIQ, i + 1>>],
                    !.regsSVC = [i \in 0..1 |-> <<SVC, i + 1>>],
                    !.regsABT = [i \in 0..1 |-> <<ABT, i + 1>>],
                    !.regsIRQ = [i \in 0..1 |-> <<IRQ, i + 1>>],
                    !.regsUND = [i \in 0..1 |-> <<UNDEF, i + 1>>]]
    /\ mem = InitMem(<<>>, <<>>)
    /\ timerTemps = [t \in 0..3 |-> 0]
    /\ timerENB = 0
    /\ exited = 0
    /\ sched = [phase |-> "bank", total |-> 0, lines |-> 0, locked |-> FALSE]
    /\ last = [Idle("init") EXCEPT !.before = <<cpu>>]
    /\ timerObs = NoObs
    /\ dmaObs = [trace |-> <<>>, runs |-> <<>>, bg |-> <<>>]
    /\ hist = [frames |-> <<>>, halted |-> FALSE, pend |-> <<>>, lineCycles |-> 0]

(* cpuModeSet(mode); last.instr keeps the mode asked for. The store to     *)
(* regsUND[2] made when UNDEF is left is outside the array: it either      *)
(* lands on the next member of cpuCore (cpsr, as regToBank has it) or is   *)
(* lost, and then cpsr keeps the mode cpuModeSet wrote                     *)
BankSwitch ==
    /\ sched.phase = "bank"
    /\ sched.total < MaxSwitches
    /\ \E mode \in {FIQ, IRQ, SVC, ABT, UNDEF, SYSTEM} :
       \E lands \in BOOLEAN :
          /\ (lands \/ ModeOf(cpu) = UNDEF)
          /\ LET s2 == cpuModeSet(Machine, mode)
             IN  Commit(IF lands THEN s2 ELSE [s2 EXCEPT !.cpu.cpsr = <<0, mode>>])
          /\ last' = [Idle("cpuModeSet") EXCEPT !.instr = <<0, mode>>,
                                                !.before = last.before]
    /\ sched' = [sched EXCEPT !.total = @ + 1]
    /\ UNCHANGED <<prog, timerObs, hist>>

SpecBank == InitBank /\ [][BankSwitch]_vars

(* ---------------------------------------------------------------------- *)
(* Properties                                                              *)
(* ---------------------------------------------------------------------- *)
(* an interrupt request the CPU has to take: I clear, IME bit 0 set,       *)
(* (IE AND IF) non-zero                                                    *)
Pending(c, m) == WBit(c.cpsr, 7) = 0 /\ m.ime % 2 = 1 /\ And16(m.ie, m.i_f) # 0

(* C1: after every executed instruction the pending-interrupt condition    *)
(* has been sampled: no instruction completes leaving a request pending    *)
(* with CPSR.I clear and IME set, because the IRQ entry (which sets I)     *)
(* comes before the next instruction.                                      *)
C1_IrqSampledAfterInstruction ==
    (last.op = "execute" /\ exited = 0) => ~Pending(cpu, mem)

(* C2: every evaluation of the interrupt check raises the IRQ only with    *)
(* IME bit 0 set, and does raise it when IME bit 0 is set, CPSR.I is clear *)
(* and (IE AND IF) is non-zero, whichever IE bits are set.                 *)
C2_IrqGatedByIME ==
    \A i \in 1..Len(last.chk) :
        LET k == last.chk[i]
        IN  /\ k.raised => k.ime % 2 = 1
            /\ (k.ime % 2 = 1 /\ WBit(k.cpsr, 7) = 0 /\ And16(k.ie, k.i_f) # 0) => k.raised

(* C3: after a write to HALTCNT no instruction is executed while           *)
(* (IE AND IF) has stayed zero.                                            *)
C3_HaltStopsCpu == ~(last.op = "execute" /\ last.halted)

(* the SPSR of mode m in the register file c *)
SpsrOf(c, m) ==
    CASE m = FIQ -> c.spsr_fiq
      [] m = IRQ -> c.spsr_irq
      [] m = SVC -> c.spsr_svc
      [] m = ABT -> c.spsr_abt
      [] m = UNDEF -> c.spsr_und

(* C4: after every exception entry into mode M (IRQ, ARM SWI, Thumb SWI)   *)
(* the CPSR mode field is M, CPSR.I is set, CPSR.T is clear and M's SPSR   *)
(* holds the CPSR from immediately before the entry.                       *)
C4_ExceptionEntryState ==
    \A i \in 1..Len(last.ev) :
        LET e == last.ev[i]
        IN  /\ ModeOf(e.after) = e.mode
            /\ WBit(e.after.cpsr, 7) = 1
            /\ WBit(e.after.cpsr, 5) = 0
            /\ SpsrOf(e.after, e.mode) = e.before.cpsr

(* MOVS pc, lr under any condition field *)
IsMovsPcLr(instr) == <<instr[1] % 4096, instr[2]>> = <<432, 61454>>

(* C5: when a handler that has not written its SPSR returns with           *)
(* MOVS pc, lr, CPSR is again exactly the CPSR from before the entry.      *)
C5_ReturnRestoresCpsr ==
    (last.op = "execute" /\ last.ret # <<>> /\ IsMovsPcLr(last.instr)
        /\ ~last.ret[1].spsrWritten)
    => cpu.cpsr = last.ret[1].cpsr

(* C6: when the handler returns to mode A, r13 and r14 of mode A hold the  *)
(* values they had before the exception entry.                             *)
C6_BankedRegistersPreserved ==
    (last.op = "execute" /\ last.ret # <<>>)
    => /\ RegIn(cpu, last.ret[1].from, 13) = last.ret[1].r13
       /\ RegIn(cpu, last.ret[1].from, 14) = last.ret[1].r14

(* the ARM condition cond evaluated on the N, Z, C, V bits of psr *)
CondHolds(psr, cond) ==
    LET n == WBit(psr, 31)
        z == WBit(psr, 30)
        c == WBit(psr, 29)
        v == WBit(psr, 28)
    IN  CASE cond = 0 -> z = 1
          [] cond = 1 -> z = 0
          [] cond = 2 -> c = 1
          [] cond = 3 -> c = 0
          [] cond = 4 -> n = 1
          [] cond = 5 -> n = 0
          [] cond = 6 -> v = 1
          [] cond = 7 -> v = 0
          [] cond = 8 -> c = 1 /\ z = 0
          [] cond = 9 -> c = 0 \/ z = 1
          [] cond = 10 -> n = v
          [] cond = 11 -> n # v
          [] cond = 12 -> z = 0 /\ n = v
          [] cond = 13 -> z = 1 \/ n # v
          [] cond = 14 -> TRUE
          [] OTHER -> FALSE

(* r0..r14 of every bank, CPSR and every SPSR are the same in a and b *)
SameRegisters(a, b) ==
    /\ \A r \in 0..14 : a.regs[r] = b.regs[r]
    /\ a.regsFIQ = b.regsFIQ /\ a.regsSVC = b.regsSVC /\ a.regsABT = b.regsABT
    /\ a.regsIRQ = b.regsIRQ /\ a.regsUND = b.regsUND
    /\ a.cpsr = b.cpsr
    /\ a.spsr_fiq = b.spsr_fiq /\ a.spsr_svc = b.spsr_svc /\ a.spsr_abt = b.spsr_abt
    /\ a.spsr_irq = b.spsr_irq /\ a.spsr_und = b.spsr_und

(* C7: executing an ARM instruction whose condition fails on the CPSR      *)
(* flags leaves r0..r14, CPSR and the SPSRs unchanged, writes no memory    *)
(* and advances the cycle counter by exactly 1.                            *)
C7_CondFailedIsNop ==
    (last.op = "execute" /\ ~last.thumb
        /\ ~CondHolds(last.pre.cpsr, Bits(last.instr, 28, 4)))
    => /\ SameRegisters(last.pre, cpu)
       /\ last.memSame
       /\ last.cycles = 1
       /\ cpu.cycle = last.pre.cycle + 1

(* C8: the instruction executed after a write to r15 is the one stored at  *)
(* the address written: it was fetched from that address and is the opcode *)
(* stored there.                                                           *)
C8_NextInstructionAtNewPc ==
    (last.op = "execute" /\ last.pend # <<>>)
    => /\ last.addr = last.pend[1]
       /\ last.instr = last.atPend

(* C9: an enabled timer whose incremented counter passes 0xFFFF is         *)
(* reloaded, counter = reload + (incremented value - 0x10000), and reports *)
(* the overflow to the next timer.                                         *)
C9_TimerOverflowReloads ==
    \A t \in 0..3 :
        LET o == timerObs[t]
        IN  (o.enabled /\ o.counter + o.inc > 65535)
            => /\ o.after = (o.reload + (o.counter + o.inc - 65536)) % 65536
               /\ o.overflow

(* C10: an overflow of enabled timer t with IRQ enable set raises the      *)
(* timer-t request, bit 3 + t of IF.                                       *)
C10_TimerOverflowRaisesIrq ==
    \A t \in 0..3 :
        LET o == timerObs[t]
        IN  (o.enabled /\ o.irqEnable /\ o.counter + o.inc > 65535)
            => (o.ifAfter \div (8 * (2 ^ t))) % 2 = 1

(* number of times a counter holding c passes 0xFFFF when inc ticks are    *)
(* applied to it, each pass restarting it at reload                        *)
Overflows(c, inc, reload) ==
    IF c + inc < 65536 THEN 0 ELSE 1 + (c + inc - 65536) \div (65536 - reload)

(* C11: in one call of updateTimer an enabled timer t in 1..3 in cascade   *)
(* mode is incremented by exactly the number of overflows of timer t-1 in  *)
(* that call, whatever its prescaler and the number of cycles passed.      *)
C11_CascadeCountsOverflows ==
    \A t \in 1..3 :
        LET o == timerObs[t]
            p == timerObs[t - 1]
        IN  (o.enabled /\ (mem.timers[t].control \div 4) % 2 = 1)
            => o.inc = (IF p.enabled THEN Overflows(p.counter, p.inc, p.reload) ELSE 0)

(* the runs of DMA channels observed in the last step *)
Runs == {dmaObs.runs[i] : i \in 1..Len(dmaObs.runs)}

(* C12: a channel run moves exactly the latched count of units; when it    *)
(* has moved the last one, with Repeat clear the enable bit is cleared,    *)
(* with Repeat set the enable bit stays set, the remaining count is the    *)
(* count register and, in end-reload mode, the latched destination is the  *)
(* destination register; an enabled channel never holds the 0xFFFFFFFF the *)
(* loop leaves in its count, so the next trigger moves the count again.    *)
C12_DmaCompletion ==
    /\ \A r \in Runs :
          /\ r.count0[1] = 0 /\ r.units = r.count0[2]
          /\ And16(r.control, DMA_REP) = 0 => And16(r.controlAfter, DMA_ENB) = 0
          /\ And16(r.control, DMA_REP) # 0 =>
                /\ And16(r.controlAfter, DMA_ENB) # 0
                /\ r.countAfter = <<0, r.regCount>>
                /\ ((r.control \div 32) % 4 = 3 => r.destAfter = r.regDest)
    /\ \A c \in 0..3 : And16(mem.dma[c].control, DMA_ENB) # 0 => mem.dmaCount[c][1] = 0

(* a V-blank or H-blank run of a Repeat channel in end-reload mode that    *)
(* starts where an earlier run left the source: a later trigger            *)
C12_Witness ==
    \E r \in Runs :
        /\ r.timing # IMMEDIATELY /\ r.units > 0
        /\ And16(r.control, DMA_REP) # 0 /\ (r.control \div 32) % 4 = 3
        /\ r.src0 # <<mem.dma[r.ch].source[1],
                      mem.dma[r.ch].source[2] - (mem.dma[r.ch].source[2] % 2)>>
        /\ r.destEnd # r.destAfter

(* C13: a write of the high byte of channel c's control latches c's source *)
(* and destination, aligned down to the unit size, and c's count if and    *)
(* only if it changes the enable bit from 0 to 1 (otherwise the latched    *)
(* values stay as they were), and channel c is run during the write        *)
(* exactly when, in addition, the timing written is immediate; the run     *)
(* starts from the latched values.                                         *)
C13_DmaLatchOnEnable ==
    [][\A c \in 0..3 :
          (last'.op = "busWrite" /\ last'.addr = <<1024, 176 + 12 * c + 11>>) =>
             LET value == last'.instr[2]
                 (* w aligned down to the unit written: 4 bytes in 32-bit mode, else 2 *)
                 AlignedFor(w) == IF And16(value, 4) # 0 THEN <<w[1], w[2] - (w[2] % 4)>>
                                  ELSE <<w[1], w[2] - (w[2] % 2)>>
                 flips == And16(mem.dma[c].control, DMA_ENB) = 0 /\ value >= 128
                 immediate == (value \div 16) % 4 = IMMEDIATELY
                 ran == {r \in {dmaObs'.runs[i] : i \in 1..Len(dmaObs'.runs)} : r.ch = c}
                 src == AlignedFor(mem.dma[c].source)
                 dest == AlignedFor(mem.dma[c].destination)
                 count == <<0, mem.dma[c].count>>
             IN  /\ (ran # {}) <=> (flips /\ immediate)
                 /\ (flips /\ immediate) =>
                       \A r \in ran : r.src0 = src /\ r.dest0 = dest /\ r.count0 = count
                 /\ (flips /\ ~immediate) =>
                       /\ mem'.dmaSrc[c] = src /\ mem'.dmaDest[c] = dest
                       /\ mem'.dmaCount[c] = count
                 /\ ~flips =>
                       /\ mem'.dmaSrc[c] = mem.dmaSrc[c] /\ mem'.dmaDest[c] = mem.dmaDest[c]
                       /\ mem'.dmaCount[c] = mem.dmaCount[c]]_vars

(* the enable of channel 0 in 32-bit mode with immediate timing, its       *)
(* source register being 0x08000002: the transfer ran from 0x08000000      *)
C13_Witness ==
    /\ last.op = "busWrite" /\ last.addr = <<1024, 187>>
    /\ last.instr[2] >= 128 /\ And16(last.instr[2], 4) # 0
    /\ mem.dma[0].source = <<2048, 2>>
    /\ \E r \in Runs : r.ch = 0 /\ r.timing = IMMEDIATELY /\ r.units > 0
                       /\ r.src0 = <<2048, 0>>

(* the address n units of size u after w in increment mode `mode`: 0 up,   *)
(* 1 down, 2 fixed; upTo3 tells whether mode 3 counts up (the destination, *)
(* increment and reload) or stays (the source, where it is reserved)       *)
Advanced(w, mode, n, u, upTo3) ==
    CASE mode = 0 \/ (mode = 3 /\ upTo3) -> WAdd(w, <<0, n * u>>)
      [] mode = 1 -> WSub(w, <<0, n * u>>)
      [] OTHER -> w

(* C14 as stated: after the n units of a run the latched source and        *)
(* destination have advanced by n times the signed step of their mode, are *)
(* unchanged for FIXED, and in end-reload mode the latched destination is  *)
(* the destination register.                                               *)
C14_DmaAddressesReloaded ==
    \A r \in Runs :
        LET u == IF And16(r.control, DMA_32) # 0 THEN 4 ELSE 2
            destMode == (r.control \div 32) % 4
        IN  /\ r.srcAfter = Advanced(r.src0, (r.control \div 128) % 4, r.units, u, FALSE)
            /\ r.destAfter = (IF destMode = 3 THEN r.regDest
                              ELSE Advanced(r.dest0, destMode, r.units, u, FALSE))

(* C14, amended: after the n units of a run the latched source and         *)
(* destination have advanced by n times the signed step of their mode      *)
(* (+unit for the destination in end-reload mode) and are unchanged for    *)
(* FIXED; the latched destination then becomes the destination register    *)
(* only in end-reload mode with Repeat set.                                *)
C14_DmaAddressesAdvance ==
    \A r \in Runs :
        LET u == IF And16(r.control, DMA_32) # 0 THEN 4 ELSE 2
            destMode == (r.control \div 32) % 4
        IN  /\ r.srcEnd = Advanced(r.src0, (r.control \div 128) % 4, r.units, u, FALSE)
            /\ r.srcAfter = r.srcEnd
            /\ r.destEnd = Advanced(r.dest0, destMode, r.units, u, TRUE)
            /\ r.destAfter = (IF destMode = 3 /\ And16(r.control, DMA_REP) # 0
                              THEN r.regDest ELSE r.destEnd)

(* a run of two 32-bit units with source and destination both counting    *)
(* down from their latched addresses                                       *)
C14_Witness ==
    \E r \in Runs : /\ r.units = 2 /\ And16(r.control, DMA_32) # 0
                    /\ (r.control \div 32) % 4 = 1 /\ (r.control \div 128) % 4 = 1
                    /\ r.destEnd = WSub(r.dest0, <<0, 8>>)
                    /\ r.dest0 = <<768, 4>>

(* C16: the channels one trigger runs are run in ascending channel number, *)
(* and the units moved come channel by channel: no unit of a channel is    *)
(* moved after a unit of a higher channel.                                 *)
C16_DmaChannelOrder ==
    /\ \A i, j \in 1..Len(dmaObs.runs) : i < j => dmaObs.runs[i].ch < dmaObs.runs[j].ch
    /\ \A i, j \in 1..Len(dmaObs.trace) :
          (i < j /\ dmaObs.trace[i].kind = "unit" /\ dmaObs.trace[j].kind = "unit")
              => dmaObs.trace[i].ch <= dmaObs.trace[j].ch

(* one V-blank or H-blank trigger that ran channel 0 and channel 3, two    *)
(* units or more in all                                                    *)
C16_Witness ==
    /\ last.op = "dmaTransfer"
    /\ \E r0, r3 \in Runs : r0.ch = 0 /\ r3.ch = 3 /\ r0.units > 0 /\ r3.units > 0

(* C19: a byte written to 0x0E005555 while no data byte is awaited changes *)
(* the Flash mode, the id-mode flag, the bank or a Flash byte only if the  *)
(* two writes before it were the guard sequence, 0xAA to 0x0E005555 and    *)
(* then 0x55 to 0x0E002AAA.                                                *)
C19_FlashCommandNeedsGuard ==
    [][(/\ last'.op = "busWrite" /\ last'.addr = <<3584, 21845>>
        /\ mem.modeFlash # "WRITE"
        /\ last'.before # <<[addr |-> <<3584, 21845>>, value |-> 170],
                            [addr |-> <<3584, 10922>>, value |-> 85]>>)
       => /\ mem'.modeFlash = mem.modeFlash
          /\ mem'.modeIdFlash = mem.modeIdFlash
          /\ mem'.flashBank = mem.flashBank
          /\ mem'.flash = mem.flash]_vars

(* C20: the mode becomes WRITE only by the command 0xA0; the byte write    *)
(* that follows stores its value at flash[bank | offset], changes no other *)
(* Flash byte and returns the mode to IDLE, and the byte is what the       *)
(* address then reads; a write in mode IDLE changes no Flash byte.         *)
C20_FlashWriteCommand ==
    [][(last'.op = "busWrite" /\ prog = "flashCommands") =>
          LET value == last'.instr[2]
              idx == mem.flashBank + last'.addr[2]
          IN  /\ (mem'.modeFlash = "WRITE" /\ mem.modeFlash # "WRITE")
                    => (last'.addr = <<3584, 21845>> /\ value = 160)
              /\ mem.modeFlash = "WRITE" =>
                    /\ mem'.flash = [mem.flash EXCEPT ![idx] = value]
                    /\ mem'.modeFlash = "IDLE"
                    /\ ~mem'.modeIdFlash => flashRead([mem |-> mem'], last'.addr) = value
              /\ mem.modeFlash = "IDLE" => mem'.flash = mem.flash]_vars

(* the byte 0x77 written to 0x0E001000 after the command 0xA0 is in Flash  *)
(* and the mode is IDLE again                                              *)
C20_Witness ==
    /\ last.op = "busWrite" /\ last.addr = <<3584, 4096>> /\ last.instr = <<0, 119>>
    /\ Len(last.before) = 2 /\ last.before[2] = [addr |-> <<3584, 21845>>, value |-> 160]
    /\ mem.flash[mem.flashBank + 4096] = 119 /\ mem.modeFlash = "IDLE"

(* C18: the CPU budgets are honoured exactly: the cycles run in the H-draw *)
(* phase of a scanline never exceed 1006 and are exactly 1006 when the     *)
(* phase ends, the cycles of the H-blank phase never exceed 226 and are    *)
(* exactly 226 when it ends, 1232 for the scanline.                        *)
C18_BudgetsExact ==
    /\ sched.phase = "hdraw" => sched.total <= CYCLES_PER_HDRAW
    /\ sched.phase = "hblank" =>
          /\ sched.total <= CYCLES_PER_SCANLINE - CYCLES_PER_HDRAW
          /\ hist.lineCycles <= CYCLES_PER_SCANLINE

(* C15: a step of the frame runs a channel with V-blank timing exactly     *)
(* once if the step is the entry to scanline 160 and the channel is        *)
(* enabled, and not at all otherwise; it runs a channel with H-blank       *)
(* timing exactly once if the step is the H-blank of one of the scanlines  *)
(* 0..159 and the channel is enabled, and not at all otherwise; at the     *)
(* entry to a scanline the CPU has run no instruction of that scanline.    *)
C15_DmaOncePerTrigger ==
    [][LET runs == dmaObs'.runs
           ran(c, t) == Cardinality({i \in 1..Len(runs) :
                                        runs[i].ch = c /\ runs[i].timing = t})
           armed(c, t) == /\ mem.dma[c].control \div DMA_ENB = 1
                          /\ (mem.dma[c].control \div 4096) % 4 = t
       IN  /\ \A c \in 0..3 :
                /\ ran(c, VBLANK) = IF /\ last'.op = "lineStart"
                                       /\ mem'.vcount = FRAME_HEIGHT
                                       /\ armed(c, VBLANK)
                                    THEN 1 ELSE 0
                /\ ran(c, HBLANK) = IF /\ last'.op = "hblankStart"
                                       /\ mem'.vcount < FRAME_HEIGHT
                                       /\ armed(c, HBLANK)
                                    THEN 1 ELSE 0
           /\ last'.op = "lineStart" => hist'.lineCycles = 0]_vars

(* scanline 160 entered after scanline 159: channel 3, V-blank timed, ran  *)
C15_Witness ==
    /\ last.op = "lineStart" /\ mem.vcount = FRAME_HEIGHT /\ sched.lines = 2
    /\ Len(dmaObs.runs) = 1
    /\ dmaObs.runs[1].ch = 3 /\ dmaObs.runs[1].timing = VBLANK
    /\ mem.dma[0].control \div DMA_ENB = 1

(* C17: on a visible scanline the step between the two CPU budgets comes   *)
(* after at least 1006 cycles of H-draw; it renders the scanline first,    *)
(* then moves the units of the H-blank DMAs, all with the H-blank flag     *)
(* clear and the H-blank request not yet raised, and ends with the flag    *)
(* set and the request raised if enabled; the CPU runs its H-draw budget   *)
(* with the flag clear and its H-blank budget with the flag set, and no    *)
(* other step renders.                                                     *)
C17_ScanlineOrder ==
    [][LET trace == dmaObs'.trace
           hblk(x) == (x \div 2) % 2
           visible == last'.op = "hblankStart" /\ mem.vcount < FRAME_HEIGHT
       IN  /\ visible =>
                /\ sched.phase = "hdraw" /\ hist.lineCycles >= CYCLES_PER_HDRAW
                /\ trace # <<>> /\ trace[1].kind = "render" /\ trace[1].ch = mem.vcount
                /\ \A i \in 2..Len(trace) : trace[i].kind = "unit"
                /\ (\E c \in 0..3 : /\ mem.dma[c].control \div DMA_ENB = 1
                                    /\ (mem.dma[c].control \div 4096) % 4 = HBLANK)
                      => Len(trace) > 1
                /\ \A i \in 1..Len(trace) : /\ hblk(trace[i].stat) = 0
                                            /\ hblk(trace[i].irq) = hblk(mem.i_f)
                /\ hblk(mem'.dispstat) = 1
                /\ hblk(mem'.i_f) = IF (mem.dispstat \div 16) % 2 = 1 THEN 1
                                    ELSE hblk(mem.i_f)
                /\ sched'.phase = "hblank" /\ sched'.total = 0
           /\ ~visible => \A i \in 1..Len(trace) : trace[i].kind # "render"
           /\ last'.op = "execute" =>
                hblk(mem.dispstat) = IF sched.phase = "hblank" THEN 1 ELSE 0]_vars

(* the H-blank of scanline 159: the line rendered, two units moved by      *)
(* channel 0, the flag set and the request raised                          *)
C17_Witness ==
    /\ last.op = "hblankStart" /\ mem.vcount = FRAME_HEIGHT - 1
    /\ Len(dmaObs.trace) = 3 /\ dmaObs.trace[3].kind = "unit"
    /\ (mem.dispstat \div 2) % 2 = 1 /\ (mem.i_f \div 2) % 2 = 1

(* C21: while a Bank-switch command is pending, a byte written to          *)
(* 0x0E000000 selects bank 1 (offset 0x10000) if bit 0 of the value is set *)
(* and bank 0 otherwise, returns the mode to IDLE and changes no Flash     *)
(* byte; the bank changes in no other way; the data byte of a Write        *)
(* command goes to the selected bank and a read returns the byte of the    *)
(* selected bank.                                                          *)
C21_FlashBankSwitch ==
    [][(last'.op = "busWrite" /\ prog # "dmaRegisters") =>
          LET value == last'.instr[2]
              off == last'.addr[2]
              switch == mem.modeFlash = "BANK_SWITCH" /\ last'.addr = <<3584, 0>>
          IN  /\ switch => /\ mem'.flashBank = (value % 2) * 65536
                           /\ mem'.modeFlash = "IDLE"
                           /\ mem'.flash = mem.flash
              /\ mem'.flashBank # mem.flashBank => switch
              /\ mem.modeFlash = "WRITE" =>
                    /\ mem'.flash[mem.flashBank + off] = value
                    /\ \A i \in DOMAIN mem.flash \ {mem.flashBank + off} :
                          mem'.flash[i] = mem.flash[i]
              /\ (mem'.usedFlash /\ ~mem'.modeIdFlash) =>
                    \A o \in {0, 4096, 10922, 21845} :
                       flashRead([mem |-> mem'], <<3584, o>>)
                          = mem'.flash[mem'.flashBank + o]]_vars

(* bank 1 selected after 0x77 was written to bank 0, and 0x30 written to   *)
(* the same offset of bank 1: the read returns the byte of bank 1          *)
C21_Witness ==
    /\ prog = "flashBank" /\ last.op = "busWrite" /\ sched.total > 0
    /\ mem.flashBank = 65536 /\ mem.modeFlash = "IDLE"
    /\ mem.flash[4096] = 119 /\ mem.flash[65536 + 4096] = 48
    /\ flashRead([mem |-> mem], <<3584, 4096>>) = 48

(* C22: after a byte, halfword or word write to palette RAM, every native  *)
(* palette entry the write covers equals the 32-bit expansion (alpha 0xFF, *)
(* each 5-bit channel widened to 8 bits by bit replication) of the 15-bit  *)
(* colour now stored in palette RAM for that entry.                        *)
C22_PaletteEntriesExpandRam ==
    LET c8(c5) == c5 * 8 + (c5 \div 4)
        expand(pixel) == <<c8((pixel \div 32) % 32) + 256 * c8((pixel \div 1024) % 32),
                           255 + 256 * c8(pixel % 32)>>
        half(off) == LET w == WordAt(mem.palRAM, off - (off % 4))
                     IN  IF off % 4 = 0 THEN w[2] ELSE w[1]
        size == CASE last.type = "word" -> 4 [] last.type = "half" -> 2 [] OTHER -> 1
        first == (last.addr[2] % 1024) - (last.addr[2] % size)
        covered == {e \in 0..511 : 2 * e + 1 >= first /\ 2 * e < first + size}
    IN  (last.op = "busWrite" /\ WriteRegion(last.addr) = 5)
            => \A e \in covered : WordAt(mem.palette, e) = expand(half(2 * e))

(* C23: a byte write of b to a palette address a, even or odd, leaves the  *)
(* memory exactly as the halfword write of (b << 8) | b to a would: both   *)
(* bytes of the halfword at a & ~1 equal b.                                *)
C23_PaletteByteIsHalfword ==
    [][(last'.op = "busWrite" /\ last'.type = "byte" /\ WriteRegion(last'.addr) = 5)
          => mem' = memWriteHalfWord(Machine, last'.addr, 257 * last'.instr[2]).mem]_vars

(* C24: a byte write of b to a VRAM address a, even or odd, makes both     *)
(* bytes of the halfword at a & ~1 equal to b and changes no byte outside  *)
(* that halfword.                                                          *)
C24_VramByteFillsHalfword ==
    [][(last'.op = "busWrite" /\ last'.type = "byte" /\ WriteRegion(last'.addr) = 6)
          => LET a == last'.addr
                 off == vramOffset(<<a[1], a[2] - (a[2] % 2)>>)
                 al == off - (off % 4)
                 b == last'.instr[2]
                 lane(w) == IF off % 4 = 0 THEN w[2] ELSE w[1]
                 rest(w) == IF off % 4 = 0 THEN w[1] ELSE w[2]
             IN  /\ lane(WordAt(mem'.vram, al)) = 257 * b
                 /\ rest(WordAt(mem'.vram, al)) = rest(WordAt(mem.vram, al))
                 /\ \A o \in (DOMAIN mem.vram \cup DOMAIN mem'.vram) \ {al} :
                        WordAt(mem'.vram, o) = WordAt(mem.vram, o)]_vars

(* C25: a halfword written to an address of EWRAM, IWRAM, palette RAM,     *)
(* VRAM or OAM (top byte 0x02, 0x03, 0x05, 0x06 or 0x07), mirrors          *)
(* included, is the halfword read back from that address.                  *)
C25_HalfwordRoundTrip ==
    (last.op = "busWrite" /\ last.type = "half" /\ Region(last.addr) \in {2, 3, 5, 6, 7})
        => memReadHalfWord(Machine, last.addr) = last.instr[2]

C25_Witness ==
    /\ prog = "halfwords"
    /\ last.op = "busWrite"
    /\ last.addr = <<1537, 32768>>
    /\ WordAt(mem.vram, 65536)[2] = 8738
    /\ sched.total >= 2

(* C26: the BIOS-bus latch holds the value of the most recent BIOS read    *)
(* performed while r15 < 0x4000.  After an ARM instruction that makes no   *)
(* data access, the most recent read is the fetch that filled the          *)
(* pipeline; when that fetch was made inside the BIOS, the latch equals    *)
(* the word fetched.                                                       *)
C26_BiosLatchHoldsLastRead ==
    LET fetchAddr == WSub(cpu.regs[15], <<0, 4>>)
    IN  (/\ last.op = "execute"
         /\ exited = 0
         /\ last.type \notin {"NONE", "SDT", "HDTRI"}
         /\ ~cpuInThumb(Machine)
         /\ fetchAddr[1] = 0
         /\ fetchAddr[2] < 16384)
            => mem.biosBus = cpu.pipeline

(* C27: an instruction the CPU executes, a write to DISPSTAT included      *)
(* (also one that rewrites the IRQ-enable bits already set), raises none   *)
(* of the V-blank, H-blank and V-count requests in IF; each of them is     *)
(* raised only by its scanline event, with its enable bit set in DISPSTAT. *)
C27_DisplayRequestsByScanlineEvent ==
    [][LET raised(flag) == And16(mem'.i_f, flag) # 0 /\ And16(mem.i_f, flag) = 0
           enabled(bit) == And16(mem.dispstat, bit) # 0
       IN  /\ last'.op = "execute" => \A flag \in {1, 2, 4} : ~raised(flag)
           /\ raised(1) => /\ last'.op = "lineStart"
                           /\ mem.vcount = FRAME_HEIGHT
                           /\ enabled(8)
           /\ raised(2) => last'.op = "hblankStart" /\ enabled(16)
           /\ raised(4) => /\ last'.op = "lineStart"
                           /\ mem.vcount = mem.dispstat \div 256
                           /\ enabled(32)]_vars

C27_Witness ==
    /\ prog = "dispstat"
    /\ last.op = "execute"
    /\ last.instr = <<57792, 4276>>
    /\ sched.phase = "hblank"
    /\ And16(mem.dispstat, 2 + 16) = 2 + 16
    /\ And16(last.pre.regs[1][2], 56) = 56
    /\ mem.i_f = 0

(* C28: the frame texture is locked once per frame, by the start of the    *)
(* frame and only while it is not locked, and it is not left locked on any *)
(* path out of the frame: not by the end of the scanline loop and not by a *)
(* fatal decode or execute error.                                          *)
C28_TextureLockReleased ==
    [][/\ (sched'.locked /\ ~sched.locked) => last'.op = "frameStart"
       /\ last'.op = "frameStart" => (~sched.locked /\ sched'.locked)
       /\ sched'.phase = "frame" => ~sched'.locked
       /\ exited' # 0 => ~sched'.locked]_vars

(* C29: when a visible scanline is rendered, each enabled affine           *)
(* background, BG2 and BG3, is drawn from its own internal X and Y         *)
(* counters (the snapshot of its reference point taken at V-blank start or *)
(* at the last CPU write), and these are then advanced by that             *)
(* background's own PB and PD.                                             *)
C29_AffineCountersOwn ==
    [][LET mode == mem.dispcnt % 8
           sx(h) == IF h >= 32768 THEN <<65535, h>> ELSE <<0, h>>
           drawn(bgIdx) == (mem.dispcnt \div (256 * 2 ^ bgIdx)) % 2 = 1
                           /\ (mode = 2 \/ (mode = 1 /\ bgIdx = 2))
       IN  /\ (last'.op = "hblankStart" /\ mem.vcount < FRAME_HEIGHT)
                 => \A k \in 0..1 :
                       drawn(2 + k) =>
                          /\ \E i \in 1..Len(dmaObs'.bg) :
                                dmaObs'.bg[i] = [ch |-> 2 + k, x |-> mem.internalPX[k],
                                                 y |-> mem.internalPY[k]]
                          /\ mem'.internalPX[k] = WAdd(mem.internalPX[k], sx(mem.bgpb[k]))
                          /\ mem'.internalPY[k] = WAdd(mem.internalPY[k], sx(mem.bgpd[k]))
           /\ (last'.op = "lineStart" /\ mem.vcount = FRAME_HEIGHT)
                 => mem'.internalPX = mem.bgx /\ mem'.internalPY = mem.bgy]_vars

(* C30: after a flag-setting arithmetic instruction with an immediate      *)
(* second operand (ARM data processing with the S bit, or CMP / CMN; Thumb *)
(* CMP, ADD and SUB immediate) the C flag is the unsigned overflow of the  *)
(* sum for ADD, ADC and CMN, and "operand1 >= operand2", the borrow taken  *)
(* into account, for SUB, SBC, RSB, RSC and CMP.                           *)
C30_ArithmeticCarry ==
    LET instr == last.instr
        reg(n) == getReg([cpu |-> last.pre], n)
        cin == WBit(last.pre.cpsr, 29)
        (* carry out of a + b + c, and a >= b + borrow, on 32-bit words *)
        carryOut(a, b, c) == (a[1] + b[1] + ((a[2] + b[2] + c) \div 65536)) \div 65536
        geq(a, b, borrow) ==
            IF a[1] > b[1] \/ (a[1] = b[1] /\ a[2] >= b[2] + borrow) THEN 1 ELSE 0
        opcode == Bits(instr, 21, 4)
        imm == WRor(<<0, instr[2] % 256>>, 2 * Bits(instr, 8, 4))
        arm == /\ ~last.thumb /\ last.type = "DPROC" /\ last.passed
               /\ Bits(instr, 25, 1) = 1
               /\ opcode \in {2, 3, 4, 5, 6, 7, 10, 11}
               /\ Bits(instr, 20, 1) = 1
               /\ Bits(instr, 12, 4) # 15 /\ Bits(instr, 16, 4) # 15
        armCarry ==
            LET op1 == reg(Bits(instr, 16, 4))
            IN  CASE opcode \in {4, 11} -> carryOut(op1, imm, 0)
                  [] opcode = 5 -> carryOut(op1, imm, cin)
                  [] opcode \in {2, 10} -> geq(op1, imm, 0)
                  [] opcode = 3 -> geq(imm, op1, 0)
                  [] opcode = 6 -> geq(op1, imm, 1 - cin)
                  [] opcode = 7 -> geq(imm, op1, 1 - cin)
        op == Bits(instr, 11, 2)
        offset == <<0, instr[2] % 256>>
        thumb == last.thumb /\ last.type = "MCASI" /\ op \in 1..3
        thumbCarry ==
            LET Rd == reg(Bits(instr, 8, 3))
            IN  IF op = 2 THEN carryOut(Rd, offset, 0) ELSE geq(Rd, offset, 0)
    IN  (last.op = "execute" /\ exited = 0)
            => /\ arm => WBit(cpu.cpsr, 29) = armCarry
               /\ thumb => WBit(cpu.cpsr, 29) = thumbCarry

(* C31: a shift whose amount comes from a register and is zero leaves the  *)
(* shifted value and the C flag as they were: ARM MOVS Rd, Rm, <shift> Rs  *)
(* with the low byte of Rs zero writes Rm to Rd and keeps C; the Thumb     *)
(* shifts LSL, LSR, ASR and ROR Rd, Rs with Rs zero keep Rd and C.         *)
C31_RegisterShiftByZero ==
    [][last'.op = "execute" =>
         LET i == last'.instr
             pre == last'.pre
             armCase == /\ ~last'.thumb /\ last'.passed /\ last'.type = "DPROC"
                        /\ Bits(i, 25, 1) = 0 /\ Bits(i, 4, 1) = 1
                        /\ Bits(i, 21, 4) = 13 /\ Bits(i, 20, 1) = 1
                        /\ Bits(i, 12, 4) < 8 /\ Bits(i, 0, 4) < 8
                        /\ pre.regs[Bits(i, 8, 4)][2] % 256 = 0
             thumbCase == /\ last'.thumb /\ last'.type = "ALU"
                          /\ Bits(i, 6, 4) \in {2, 3, 4, 7}
                          /\ pre.regs[Bits(i, 3, 3)] = WZero
         IN  /\ armCase => /\ cpu'.regs[Bits(i, 12, 4)] = pre.regs[Bits(i, 0, 4)]
                           /\ WBit(cpu'.cpsr, 29) = WBit(pre.cpsr, 29)
             /\ thumbCase => /\ cpu'.regs[Bits(i, 0, 3)] = pre.regs[Bits(i, 0, 3)]
                             /\ WBit(cpu'.cpsr, 29) = WBit(pre.cpsr, 29)]_vars

(* C32: a byte, halfword or word write to an address whose top byte names  *)
(* no region (0x01, or 0x10 and above), an address whose word reads as the *)
(* unmapped value 0, changes no memory and no I/O register.                *)
C32_UnmappedWriteChangesNothing ==
    [][(last'.op = "busWrite"
        /\ (Region(last'.addr) = 1 \/ Region(last'.addr) >= 16))
       => /\ memReadWord(Machine, last'.addr) = WZero
          /\ mem' = mem]_vars

(* C33: in every mode an ARM instruction is executed when its condition    *)
(* holds on the N, Z, C, V bits of CPSR, and a flag-setting MOVS Rd, ...   *)
(* (Rd not r15) leaves N and Z of CPSR describing the value written and    *)
(* every SPSR as it was.                                                   *)
C33_FlagsLiveInCpsr ==
    [][(last'.op = "execute" /\ ~last'.thumb /\ last'.type # "NONE") =>
         LET i == last'.instr
             pre == last'.pre
             Rd == Bits(i, 12, 4)
             movs == /\ last'.passed /\ last'.type = "DPROC"
                     /\ Bits(i, 21, 4) = 13 /\ Bits(i, 20, 1) = 1 /\ Rd # 15
             val == RegIn(cpu', ModeOf(pre), Rd)
         IN  /\ last'.passed = CondHolds(pre.cpsr, Bits(i, 28, 4))
             /\ movs => /\ WBit(cpu'.cpsr, 31) = WBit(val, 31)
                        /\ WBit(cpu'.cpsr, 30) = IsZero(val)
                        /\ cpu'.spsr_fiq = pre.spsr_fiq /\ cpu'.spsr_svc = pre.spsr_svc
                        /\ cpu'.spsr_abt = pre.spsr_abt /\ cpu'.spsr_irq = pre.spsr_irq
                        /\ cpu'.spsr_und = pre.spsr_und]_vars

(* C34: after an exception entry into mode M, r14 as an instruction of the *)
(* handler reads it in mode M is the return address: r15 at the entry      *)
(* minus 4 for an IRQ, minus 2 (Thumb state) or 4 (ARM state) for a SWI.   *)
C34_HandlerReadsReturnAddress ==
    \A i \in 1..Len(last.ev) :
        LET e == last.ev[i]
            back == IF e.kind # "irq" /\ WBit(e.before.cpsr, 5) = 1 THEN 2 ELSE 4
        IN  RegIn(e.after, e.mode, 14) = WSub(e.before.regs[15], <<0, back>>)

(* C35: a Thumb SWI at address A served by a handler that returns with     *)
(* MOVS pc, lr (and does not write the SPSR) resumes in Thumb state at     *)
(* A + 2.  When the SWI executes r15 is A + 4.                             *)
C35_ThumbSwiResumesAfterSwi ==
    (last.op = "execute" /\ last.ret # <<>> /\ IsMovsPcLr(last.instr)
        /\ last.ret[1].kind = "tswi" /\ ~last.ret[1].spsrWritten)
    => /\ cpu.regs[15] = WSub(last.ret[1].r15, <<0, 2>>)
       /\ WBit(cpu.cpsr, 5) = 1

(* C36: in straight-line code the instruction executed next is the one the *)
(* previous step latched: when an instruction has been executed and the    *)
(* last one did not write r15, the next instruction executed is the one at *)
(* r15 minus the instruction width, with the opcode stored there, whatever *)
(* the value of that opcode.                                               *)
C36_LatchedOpcodeIsExecuted ==
    [][(last'.op = "execute" /\ hist.pend = <<>> /\ cpu.cycle > 0) =>
         LET width == IF WBit(cpu.cpsr, 5) = 1 THEN 2 ELSE 4
             at == WSub(cpu.regs[15], <<0, width>>)
         IN  /\ last'.addr = at
             /\ last'.instr = StoredAt(<<at>>)]_vars

(* C37: every instruction that is executed and returns to executeInput     *)
(* advances the cycle counter by at least 1, a block transfer with an      *)
(* empty register list included.                                           *)
C37_EveryInstructionTakesCycles ==
    (last.op = "execute" /\ exited = 0)
    => (last.cycles >= 1 /\ cpu.cycle >= last.pre.cycle + 1)

(* C38: a byte write of channel c's high control byte that changes the     *)
(* enable bit from 0 to 1 transfers no unit on any other channel and       *)
(* leaves the latched source, destination and remaining count of every     *)
(* other channel as they were.                                             *)
C38_EnableMovesOwnChannelOnly ==
    [][\A c \in 0..3 :
          (/\ last'.op = "busWrite" /\ last'.type = "byte"
           /\ last'.addr = <<1024, 176 + 12 * c + 11>>
           /\ And16(mem.dma[c].control, DMA_ENB) = 0 /\ last'.instr[2] >= 128)
          => \A d \in (0..3) \ {c} :
                /\ \A i \in 1..Len(dmaObs'.trace) :
                      dmaObs'.trace[i].kind = "unit" => dmaObs'.trace[i].ch # d
                /\ mem'.dmaSrc[d] = mem.dmaSrc[d]
                /\ mem'.dmaDest[d] = mem.dmaDest[d]
                /\ mem'.dmaCount[d] = mem.dmaCount[d]]_vars

C40_BankSaveLoadInverse ==
    LET c0 == last.before[1]
        M == ModeOf(c0)
        banks(c) == [FIQ |-> c.regsFIQ, IRQ |-> c.regsIRQ, SVC |-> c.regsSVC,
                     ABT |-> c.regsABT, UND |-> c.regsUND]
        own == CASE M = FIQ -> "FIQ" [] M = IRQ -> "IRQ" [] M = SVC -> "SVC"
                 [] M = ABT -> "ABT" [] M = UNDEF -> "UND"
        spsrs(c) == <<c.spsr_fiq, c.spsr_svc, c.spsr_abt, c.spsr_irq, c.spsr_und>>
        left == last.op = "cpuModeSet" /\ sched.total = 1 /\ last.instr[2] # M
        back == /\ last.op = "cpuModeSet" /\ sched.total = 2
                /\ last.instr[2] = M /\ ModeOf(last.pre) # M
    IN  /\ left => /\ \A b \in DOMAIN banks(c0) \ {own} : banks(cpu)[b] = banks(c0)[b]
                   /\ spsrs(cpu) = spsrs(c0)
                   /\ cpu.cpsr = <<0, last.instr[2]>>
        /\ back => cpu.regs[13] = c0.regs[13] /\ cpu.regs[14] = c0.regs[14]

====
